---------------------------- MODULE Spec2Model ----------------------------
(***************************************************************************)
(* Paludarium controller (firmware 2.1): the input classifier, the clock,  *)
(* the four device evaluators and the EEPROM save/restore, as state        *)
(* machines over the firmware's global variables.                          *)
(*                                                                         *)
(* Levels and enumerations keep the firmware's numeric encoding.  Relay    *)
(* outputs are active low: level 0 energises the device.                   *)
(***************************************************************************)
EXTENDS Integers, Sequences, FiniteSets, TLC

(***************************************************************************)
(* enum btn_press                                                          *)
(***************************************************************************)
p_none == 0
p_bt1_s == 1
p_bt1_l == 2
p_bt1_r == 3
p_bt2_s == 4
p_bt2_l == 5
p_bt2_r == 6

(***************************************************************************)
(* enum menus                                                              *)
(***************************************************************************)
m_off == 0
m_setup == 1
m_lamp == 2
m_buse == 3
m_brume == 4
m_bulle == 5
m_time == 6
m_save == 7
m_exit == 8

(***************************************************************************)
(* Output pins.                                                            *)
(***************************************************************************)
ledPin == 13
ledFond == 8
brumePin == 4
busePin == 3
bullesPin == 2
lampPin == <<7, 6, 5>>
OutPins == {2, 3, 4, 5, 6, 7, 8, 13}

(***************************************************************************)
(* Button classification thresholds and modes of input_task.               *)
(***************************************************************************)
LongAt == 8
RepeatAt == 20
RepeatEvery == 5
ModeShort == 0
ModeLong == 1
ModeRepeat == 3

(***************************************************************************)
(* Bounds of the model.  MaxHold: the hold length up to which polls are    *)
(* counted; MaxTicks: one-second clock ticks followed after boot;          *)
(* MaxSkew: ticks the local clock and the RTC may be apart.                *)
(***************************************************************************)
MaxHold == 30
MaxTicks == 75
MaxSkew == 1
MaxFires == 3

VARIABLES
    bt1, bt2,          \* BUTTON records: val, mode, time
    press,             \* the single press slot
    pinOut,            \* level last written to each output pin
    hold,              \* per button: consecutive polls that read the pin low
    emit,              \* per button: event written by the latest poll
    menu,              \* menu position
    subMenu, HorM,     \* sub menu position; hour (0) or minute focus
    choosed,           \* index of the device or trigger time under edit
    timeSelected,      \* the time under edit
    setupVal,          \* selection index or value under edit
    nbr_setup,         \* last value of the selection
    presses,           \* press events handed to the menu task so far
    wild,              \* an array was indexed outside its bounds
    seen,              \* what the latest menu iteration started from
    globalTime, sec,   \* local time of day and seconds counter
    rtc,               \* the external RTC: hours, minutes, seconds
    ktime, skew,       \* local ticks since boot; local ticks minus RTC ticks
    lamps, lampNbr,    \* the three lamp schedules; bit mask of lamps on
    buse, buseFlag,    \* pump schedule and its latch
    busePc, buseWake,  \* buse_task: "eval" or "run"; tick at which it wakes
    fires,             \* activations of the pump output since boot
    brume, bulles,     \* multi-event schedules
    EEPROM,            \* the persistent store, byte per address
    phase, saved,      \* store: what ran last; Configuration at the last save
    lastEval           \* per evaluator: local time at its latest cycle

inputVars == <<bt1, bt2, press, hold, emit>>
menuVars == <<subMenu, HorM, choosed, timeSelected, setupVal, nbr_setup,
              presses, wild, seen>>
clockVars == <<globalTime, sec, rtc, ktime, skew>>
lampVars == <<lamps, lampNbr>>
buseVars == <<buse, buseFlag, busePc, buseWake, fires>>
extraVars == <<brume, bulles>>
storeVars == <<EEPROM, phase, saved>>

vars == <<inputVars, pinOut, menu, menuVars, clockVars, lampVars, buseVars,
          extraVars, storeVars, lastEval>>

(***************************************************************************)
(* One button of input_task: the state of the button after a poll that     *)
(* reads `level` on its pin (0 = pressed), the event it writes to the      *)
(* press slot (p_none: no write) and its write to the indicator led        *)
(* (NoWrite: the led is not written).                                      *)
(***************************************************************************)
NoWrite == 2

ButtonPoll(bt, level, evS, evL, evR) ==
    IF bt.val = 0
    THEN \* released so far: latch the press, the counter is not started
         [bt |-> IF level = 0 THEN [bt EXCEPT !.val = 1] ELSE bt,
          ev |-> p_none, led |-> NoWrite]
    ELSE IF level = 1
    THEN \* released now: short or long event, nothing after repeating
         [bt |-> [val |-> 0, mode |-> ModeShort, time |-> 0],
          ev |-> IF bt.mode = ModeShort THEN evS
                 ELSE IF bt.mode = ModeLong THEN evL ELSE p_none,
          led |-> 0]
    ELSE IF bt.mode = ModeShort
    THEN IF bt.time = LongAt
         THEN [bt |-> [bt EXCEPT !.mode = ModeLong, !.time = bt.time + 1],
               ev |-> p_none, led |-> 1]
         ELSE [bt |-> [bt EXCEPT !.time = bt.time + 1],
               ev |-> p_none, led |-> NoWrite]
    ELSE IF bt.mode = ModeLong
    THEN IF bt.time = RepeatAt
         THEN [bt |-> [bt EXCEPT !.mode = ModeRepeat, !.time = bt.time + 1],
               ev |-> p_none, led |-> 0]
         ELSE [bt |-> [bt EXCEPT !.time = bt.time + 1],
               ev |-> p_none, led |-> NoWrite]
    ELSE IF bt.time >= RepeatEvery
         THEN \* time = 0, press = repeat, then time++
              [bt |-> [bt EXCEPT !.time = 1], ev |-> evR, led |-> NoWrite]
         ELSE [bt |-> [bt EXCEPT !.time = bt.time + 1],
               ev |-> p_none, led |-> NoWrite]

(***************************************************************************)
(* Consecutive polls that read the pin low, saturating at MaxHold.         *)
(***************************************************************************)
HoldAfter(h, level) ==
    IF level = 1 THEN 0 ELSE IF h < MaxHold THEN h + 1 ELSE h

(***************************************************************************)
(* One iteration of input_task, given what each button's branch does:      *)
(* button 1, then button 2, each reading its own pin.  Button 2's writes   *)
(* to the slot and to the led come last.                                   *)
(***************************************************************************)
InputPollFrom(r1, r2, l1, l2) ==
    LET slot1 == IF r1.ev # p_none THEN r1.ev ELSE press
        led1 == IF r1.led # NoWrite THEN r1.led ELSE pinOut[ledPin]
    IN  /\ bt1' = r1.bt
        /\ bt2' = r2.bt
        /\ press' = IF r2.ev # p_none THEN r2.ev ELSE slot1
        /\ pinOut' = [pinOut EXCEPT
                        ![ledPin] = IF r2.led # NoWrite THEN r2.led ELSE led1]
        /\ hold' = <<HoldAfter(hold[1], l1), HoldAfter(hold[2], l2)>>
        /\ emit' = <<r1.ev, r2.ev>>

(***************************************************************************)
(* Faulty variants of the poll, used to show that the properties below     *)
(* depend on the classifier: the promotion to long one poll late, a long   *)
(* event written at the promotion to repeating, a long event written when  *)
(* a repeating button is released.                                         *)
(***************************************************************************)
PromoteLate(bt, level, r) ==
    IF bt.val = 1 /\ level = 0 /\ bt.mode = ModeShort /\ bt.time = LongAt
    THEN [r EXCEPT !.bt.mode = ModeShort, !.led = NoWrite]
    ELSE r

LongAtPromotion(bt, level, r, evL) ==
    IF bt.val = 1 /\ level = 0 /\ bt.mode = ModeLong /\ bt.time = RepeatAt
    THEN [r EXCEPT !.ev = evL]
    ELSE r

LongAfterRepeat(bt, level, r, evL) ==
    IF bt.val = 1 /\ level = 1 /\ bt.mode = ModeRepeat
    THEN [r EXCEPT !.ev = evL]
    ELSE r

InputPollPromoteLate(l1, l2) ==
    InputPollFrom(
        PromoteLate(bt1, l1, ButtonPoll(bt1, l1, p_bt1_s, p_bt1_l, p_bt1_r)),
        PromoteLate(bt2, l2, ButtonPoll(bt2, l2, p_bt2_s, p_bt2_l, p_bt2_r)),
        l1, l2)

InputPollLongAtPromotion(l1, l2) ==
    InputPollFrom(
        LongAtPromotion(bt1, l1,
            ButtonPoll(bt1, l1, p_bt1_s, p_bt1_l, p_bt1_r), p_bt1_l),
        LongAtPromotion(bt2, l2,
            ButtonPoll(bt2, l2, p_bt2_s, p_bt2_l, p_bt2_r), p_bt2_l),
        l1, l2)

InputPollLongAfterRepeat(l1, l2) ==
    InputPollFrom(
        LongAfterRepeat(bt1, l1,
            ButtonPoll(bt1, l1, p_bt1_s, p_bt1_l, p_bt1_r), p_bt1_l),
        LongAfterRepeat(bt2, l2,
            ButtonPoll(bt2, l2, p_bt2_s, p_bt2_l, p_bt2_r), p_bt2_l),
        l1, l2)

\* a variant in which the led is left on at the promotion to repeating
LedKeptOn(bt, level, r) ==
    IF bt.val = 1 /\ level = 0 /\ bt.mode = ModeLong /\ bt.time = RepeatAt
    THEN [r EXCEPT !.led = NoWrite]
    ELSE r

InputPollLedKeptOn(l1, l2) ==
    InputPollFrom(
        LedKeptOn(bt1, l1, ButtonPoll(bt1, l1, p_bt1_s, p_bt1_l, p_bt1_r)),
        LedKeptOn(bt2, l2, ButtonPoll(bt2, l2, p_bt2_s, p_bt2_l, p_bt2_r)),
        l1, l2)

\* a variant in which button 1's write to the slot comes last
InputPollButton1Last(l1, l2) ==
    LET r1 == ButtonPoll(bt1, l1, p_bt1_s, p_bt1_l, p_bt1_r)
        r2 == ButtonPoll(bt2, l2, p_bt2_s, p_bt2_l, p_bt2_r)
        slot2 == IF r2.ev # p_none THEN r2.ev ELSE press
        led1 == IF r1.led # NoWrite THEN r1.led ELSE pinOut[ledPin]
    IN  /\ bt1' = r1.bt
        /\ bt2' = r2.bt
        /\ press' = IF r1.ev # p_none THEN r1.ev ELSE slot2
        /\ pinOut' = [pinOut EXCEPT
                        ![ledPin] = IF r2.led # NoWrite THEN r2.led ELSE led1]
        /\ hold' = <<HoldAfter(hold[1], l1), HoldAfter(hold[2], l2)>>
        /\ emit' = <<r1.ev, r2.ev>>

InputPoll(l1, l2) ==
    InputPollFrom(ButtonPoll(bt1, l1, p_bt1_s, p_bt1_l, p_bt1_r),
                  ButtonPoll(bt2, l2, p_bt2_s, p_bt2_l, p_bt2_r),
                  l1, l2)

InputTask ==
    /\ \E l1, l2 \in {0, 1} : InputPoll(l1, l2)
    /\ UNCHANGED <<menu, menuVars, clockVars, lampVars, buseVars, extraVars,
                   storeVars, lastEval>>

(***************************************************************************)
(* TIME values and byte arithmetic.                                        *)
(***************************************************************************)
T(h, m) == [hours |-> h, minutes |-> m]
NoTime == T(255, 255)
Byte(n) == n % 256

(***************************************************************************)
(* time_task: one iteration.  The seconds counter rolls the minute and the *)
(* hour; then the local minute is overwritten with the RTC's when the two  *)
(* differ by more than 1 (the operands are promoted to int, so each        *)
(* difference is signed).                                                  *)
(***************************************************************************)
Ticked(t) ==
    IF t.minutes = 59
    THEN T(IF t.hours = 23 THEN 0 ELSE Byte(t.hours + 1), 0)
    ELSE T(t.hours, Byte(t.minutes + 1))

RtcCorrectedAnyDiff(t, rm) == T(t.hours, rm)
RtcNeverCorrected(t, rm) == t

RtcCorrected(t, rm) ==
    IF rm # t.minutes /\ (rm - t.minutes > 1 \/ t.minutes - rm > 1)
    THEN T(t.hours, rm)
    ELSE t

TimeTask ==
    /\ ktime < MaxTicks
    /\ skew < MaxSkew
    /\ sec' = IF sec >= 59 THEN 0 ELSE sec + 1
    /\ globalTime' = RtcCorrected(IF sec >= 59 THEN Ticked(globalTime)
                                  ELSE globalTime, rtc.minutes)
    /\ ktime' = ktime + 1
    /\ skew' = skew + 1
    /\ UNCHANGED <<inputVars, pinOut, menu, menuVars, rtc, lampVars, buseVars,
                   extraVars, storeVars, lastEval>>

(***************************************************************************)
(* The DS1307 counts one second.                                           *)
(***************************************************************************)
RtcTick ==
    /\ skew > -MaxSkew
    /\ rtc' = IF rtc.seconds < 59
              THEN [rtc EXCEPT !.seconds = rtc.seconds + 1]
              ELSE IF rtc.minutes < 59
              THEN [rtc EXCEPT !.seconds = 0, !.minutes = rtc.minutes + 1]
              ELSE [hours |-> (rtc.hours + 1) % 24, minutes |-> 0, seconds |-> 0]
    /\ skew' = skew - 1
    /\ UNCHANGED <<inputVars, pinOut, menu, menuVars, globalTime, sec, ktime,
                   lampVars, buseVars, extraVars, storeVars, lastEval>>

(***************************************************************************)
(* lamp_task: one evaluation cycle over the three lamps, then the shared   *)
(* backlight.  lamps[i] is the firmware's lamps[i-1]; st carries the pin   *)
(* levels and lampNbr through the loop.                                    *)
(***************************************************************************)
Pow2(i) == IF i = 0 THEN 1 ELSE IF i = 1 THEN 2 ELSE 4
BitSet(n, i) == IF (n \div Pow2(i)) % 2 = 1 THEN n ELSE n + Pow2(i)
BitClear(n, i) == IF (n \div Pow2(i)) % 2 = 1 THEN n - Pow2(i) ELSE n

LampOn(st, i) ==
    [pins |-> [st.pins EXCEPT ![lampPin[i]] = 0], nbr |-> BitSet(st.nbr, i - 1)]
LampOff(st, i) ==
    [pins |-> [st.pins EXCEPT ![lampPin[i]] = 1], nbr |-> BitClear(st.nbr, i - 1)]

LampStep(st, i, t) ==
    LET l == lamps[i] IN
    IF l.active # 0
    THEN IF t.hours = l.onH.hours /\ l.onH.minutes >= t.minutes
         THEN LampOn(st, i)
         ELSE IF t.hours > l.onH.hours /\ t.hours < l.offH.hours
         THEN LampOn(st, i)
         ELSE IF t.hours = l.offH.hours
         THEN IF t.minutes < l.offH.minutes THEN LampOn(st, i)
              ELSE LampOff(st, i)
         ELSE st
    ELSE \* disabled: the pin is switched off, lampNbr keeps the lamp's bit
         [st EXCEPT !.pins[lampPin[i]] = 1]

LampTask ==
    LET s0 == [pins |-> pinOut, nbr |-> lampNbr]
        s3 == LampStep(LampStep(LampStep(s0, 1, globalTime), 2, globalTime),
                       3, globalTime)
    IN  /\ lampNbr' = s3.nbr
        /\ pinOut' = [s3.pins EXCEPT ![ledFond] = IF s3.nbr = 0 THEN 0 ELSE 1]
        /\ lastEval' = [lastEval EXCEPT !.lamp = globalTime]
        /\ UNCHANGED <<inputVars, menu, menuVars, clockVars, lamps, buseVars,
                       extraVars, storeVars>>

(***************************************************************************)
(* buse_task.  BuseEval is one pass of the loop body up to a sleep: in the *)
(* activation branch the task switches the pump on and sleeps tOn seconds  *)
(* (busePc = "run"); BuseWake is the return of that sleep.  The else       *)
(* branch also assigns 0 to the task's local `buseflag`, which nothing     *)
(* reads; the latch tested by the condition is the global buseFlag.        *)
(* The argument of k_sleep is the int product buse.tOn * 1000: beyond the  *)
(* 16 bits of an int the product overflows, and the sleep then lasts any   *)
(* number of ticks up to tOn.                                              *)
(***************************************************************************)
SleepTicks(d) == IF d * 1000 <= 32767 THEN {d} ELSE 0..d

BuseEval ==
    /\ busePc = "eval"
    /\ lastEval' = [lastEval EXCEPT !.buse = globalTime]
    /\ IF /\ globalTime.hours >= buse.startH.hours
          /\ globalTime.hours <= buse.stopH.hours
          /\ buse.active # 0
          /\ buseFlag = 0
       THEN IF globalTime.minutes = buse.startH.minutes
            THEN /\ pinOut' = [pinOut EXCEPT ![busePin] = 0]
                 /\ busePc' = "run"
                 /\ \E w \in SleepTicks(buse.tOn) : buseWake' = ktime + w
                 /\ fires' = IF fires < MaxFires THEN fires + 1 ELSE fires
            ELSE UNCHANGED <<pinOut, busePc, buseWake, fires>>
       ELSE /\ pinOut' = [pinOut EXCEPT ![busePin] = 1]
            /\ UNCHANGED <<busePc, buseWake, fires>>
    /\ UNCHANGED <<inputVars, menu, menuVars, clockVars, lampVars, buse,
                   buseFlag, extraVars, storeVars>>

BuseWakeNoLatch ==
    /\ busePc = "run"
    /\ ktime >= buseWake
    /\ pinOut' = [pinOut EXCEPT ![busePin] = 1]
    /\ busePc' = "eval"
    /\ UNCHANGED <<inputVars, menu, menuVars, clockVars, lampVars, buse,
                   buseFlag, buseWake, fires, extraVars, storeVars, lastEval>>

\* a variant in which disabling the pump ends the sleep at once
BuseWakeOrCancel ==
    /\ busePc = "run"
    /\ ktime >= buseWake \/ buse.active = 0
    /\ pinOut' = [pinOut EXCEPT ![busePin] = 1]
    /\ buseFlag' = 1
    /\ busePc' = "eval"
    /\ UNCHANGED <<inputVars, menu, menuVars, clockVars, lampVars, buse,
                   buseWake, fires, extraVars, storeVars, lastEval>>

BuseWake ==
    /\ busePc = "run"
    /\ ktime >= buseWake
    /\ pinOut' = [pinOut EXCEPT ![busePin] = 1]
    /\ buseFlag' = 1
    /\ busePc' = "eval"
    /\ UNCHANGED <<inputVars, menu, menuVars, clockVars, lampVars, buse,
                   buseWake, fires, extraVars, storeVars, lastEval>>

(***************************************************************************)
(* brume_task and bulles_task: one evaluation cycle.  The loop runs over   *)
(* the first nbr trigger times and writes the pin as it goes, so the last  *)
(* write stands; lvl is the pin level so far.  The sums are int sums of    *)
(* two bytes and do not wrap.                                              *)
(***************************************************************************)
BrumeOne(x, i, t, lvl) ==
    LET tr == x.times[i]
        l1 == IF tr.hours = t.hours /\ tr.minutes >= t.minutes THEN 0 ELSE lvl
    IN  IF tr.minutes + x.tOn >= 60
        THEN IF tr.hours + 1 = t.hours
                /\ t.minutes >= (tr.minutes + x.tOn) - 60
             THEN 1 ELSE l1
        ELSE IF tr.hours >= t.hours /\ t.minutes >= tr.minutes + x.tOn
             THEN 1 ELSE l1

BullesOne(x, i, t, lvl) ==
    LET tr == x.times[i]
        l1 == IF t.hours = tr.hours /\ t.minutes = tr.minutes THEN 0 ELSE lvl
    IN  IF tr.minutes + x.tOn >= 60
        THEN IF tr.hours + 1 = t.hours
                /\ (tr.minutes + x.tOn) - 60 = t.minutes
             THEN 1 ELSE l1
        ELSE IF tr.hours = t.hours /\ tr.minutes + x.tOn = t.minutes
             THEN 1 ELSE l1

RECURSIVE BrumeLoop(_, _, _, _)
BrumeLoop(x, i, t, lvl) ==
    IF i > x.nbr THEN lvl ELSE BrumeLoop(x, i + 1, t, BrumeOne(x, i, t, lvl))

RECURSIVE BullesLoop(_, _, _, _)
BullesLoop(x, i, t, lvl) ==
    IF i > x.nbr THEN lvl ELSE BullesLoop(x, i + 1, t, BullesOne(x, i, t, lvl))

\* a variant that runs the loop whatever the count
BrumeLevelAnyCount(x, t, lvl) ==
    IF x.active = 1 THEN BrumeLoop(x, 1, t, lvl) ELSE 1

BrumeLevel(x, t, lvl) ==
    IF x.nbr # 0 /\ x.active = 1 THEN BrumeLoop(x, 1, t, lvl) ELSE 1

BullesLevel(x, t, lvl) ==
    IF x.nbr # 0 /\ x.active # 0 THEN BullesLoop(x, 1, t, lvl) ELSE 1

BrumeTask ==
    /\ pinOut' = [pinOut EXCEPT
                    ![brumePin] = BrumeLevel(brume, globalTime, pinOut[brumePin])]
    /\ lastEval' = [lastEval EXCEPT !.brume = globalTime]
    /\ UNCHANGED <<inputVars, menu, menuVars, clockVars, lampVars, buseVars,
                   extraVars, storeVars>>

BullesTask ==
    /\ pinOut' = [pinOut EXCEPT
                    ![bullesPin] = BullesLevel(bulles, globalTime,
                                               pinOut[bullesPin])]
    /\ lastEval' = [lastEval EXCEPT !.bulles = globalTime]
    /\ UNCHANGED <<inputVars, menu, menuVars, clockVars, lampVars, buseVars,
                   extraVars, storeVars>>

(***************************************************************************)
(* The persistent store.  Byte 0 is the format marker; the records follow  *)
(* in the order and with the sizes of the firmware's structs (all fields   *)
(* are single bytes, so the structs have no padding).                      *)
(***************************************************************************)
Marker == 2
MaxEvents == 10
SizeLamp == 5
SizeBuse == 6
SizeExtras == 23
AddrLamps == 1
AddrBuse == AddrLamps + 3 * SizeLamp
AddrBrume == AddrBuse + SizeBuse
AddrBulles == AddrBrume + SizeExtras
EepromSize == AddrBulles + SizeExtras

\* struct LAMP { TIME onH; TIME offH; uint8_t active; }
LampBytes(l) ==
    <<l.onH.hours, l.onH.minutes, l.offH.hours, l.offH.minutes, l.active>>
LampOf(b) ==
    [onH |-> T(b[1], b[2]), offH |-> T(b[3], b[4]), active |-> b[5]]

\* struct BUSE { uint8_t tOn; TIME startH; TIME stopH; uint8_t active; }
BuseBytes(p) ==
    <<p.tOn, p.startH.hours, p.startH.minutes, p.stopH.hours, p.stopH.minutes,
      p.active>>
BuseOf(b) ==
    [tOn |-> b[1], startH |-> T(b[2], b[3]), stopH |-> T(b[4], b[5]),
     active |-> b[6]]

\* struct EXTRAS { uint8_t nbr; uint8_t tOn; TIME times[10]; uint8_t active; }
ExtrasBytes(x) ==
    [k \in 1..SizeExtras |->
        IF k = 1 THEN x.nbr
        ELSE IF k = 2 THEN x.tOn
        ELSE IF k = SizeExtras THEN x.active
        ELSE IF k % 2 = 1 THEN x.times[(k - 1) \div 2].hours
        ELSE x.times[(k - 2) \div 2].minutes]
ExtrasOf(b) ==
    [nbr |-> b[1], tOn |-> b[2],
     times |-> [i \in 1..MaxEvents |-> T(b[2 * i + 1], b[2 * i + 2])],
     active |-> b[SizeExtras]]

\* EEPROM.get / EEPROM.put of n bytes at an address
Get(mem, addr, n) == [k \in 1..n |-> mem[addr + k - 1]]
Put(mem, addr, bytes) ==
    [a \in DOMAIN mem |->
        IF a >= addr /\ a < addr + Len(bytes) THEN bytes[a - addr + 1]
        ELSE mem[a]]

\* the three lamp records, the pump record and the mist record, in store order
WithRecords(mem, ls, p, x) ==
    Put(Put(Put(Put(Put(mem,
        AddrLamps, LampBytes(ls[1])),
        AddrLamps + SizeLamp, LampBytes(ls[2])),
        AddrLamps + 2 * SizeLamp, LampBytes(ls[3])),
        AddrBuse, BuseBytes(p)),
        AddrBrume, ExtrasBytes(x))
BlankStore == [a \in 0..(EepromSize - 1) |-> 255]

(***************************************************************************)
(* restoreFromEEPROM: each record is read whole, then checked.             *)
(***************************************************************************)
CheckedLamp(l) == IF l.active > 1 THEN [l EXCEPT !.active = 0] ELSE l

CheckedBuse(p) ==
    IF p.active > 1 \/ p.tOn > 200
    THEN [p EXCEPT !.active = 0, !.tOn = 0]
    ELSE p

CheckedExtrasKeepsCount(x) ==
    IF x.active > 1 \/ x.nbr > 10 \/ x.tOn > 200
    THEN [x EXCEPT !.active = 0, !.tOn = 0]
    ELSE x

CheckedExtras(x) ==
    IF x.active > 1 \/ x.nbr > 10 \/ x.tOn > 200
    THEN [x EXCEPT !.active = 0, !.nbr = 0, !.tOn = 0]
    ELSE x

RestoredLampsAllOrNothing(mem) ==
    LET raw == [i \in 1..3 |->
                  LampOf(Get(mem, AddrLamps + (i - 1) * SizeLamp, SizeLamp))]
    IN  IF \E i \in 1..3 : raw[i].active > 1
             \/ BuseOf(Get(mem, AddrBuse, SizeBuse)).active > 1
        THEN [i \in 1..3 |-> [raw[i] EXCEPT !.active = 0]]
        ELSE raw

RestoredLamps(mem) ==
    [i \in 1..3 |->
        CheckedLamp(LampOf(Get(mem, AddrLamps + (i - 1) * SizeLamp, SizeLamp)))]
RestoredBuse(mem) == CheckedBuse(BuseOf(Get(mem, AddrBuse, SizeBuse)))
RestoredBrume(mem) == CheckedExtras(ExtrasOf(Get(mem, AddrBrume, SizeExtras)))
RestoredBulles(mem) == CheckedExtras(ExtrasOf(Get(mem, AddrBulles, SizeExtras)))

(***************************************************************************)
(* The menu.  A menu function is an operator on the record of the globals  *)
(* the menu task reads and writes; `stray` is the byte an access outside   *)
(* an array's bounds reads in this step, and `wild` records that such an   *)
(* access took place.  lamps[i] and times[i] are the firmware's            *)
(* lamps[i-1] and times[i-1]; choosed and setupVal keep the firmware's     *)
(* values.  All fields are bytes: increments and decrements wrap.  A write *)
(* outside an array is recorded in `wild`; where it lands is not followed. *)
(* MaxPresses: press events handed to the menu task after the boot.        *)
(***************************************************************************)
MaxPresses == 8
MaxEdits == 10
Stray == {0, 255}

MenuState(g) ==
    [press |-> press, menu |-> menu, subMenu |-> subMenu, HorM |-> HorM,
     choosed |-> choosed, timeSelected |-> timeSelected,
     setupVal |-> setupVal, nbr_setup |-> nbr_setup,
     lamps |-> lamps, buse |-> buse, brume |-> brume, bulles |-> bulles,
     globalTime |-> globalTime, sec |-> sec, rtc |-> rtc,
     stray |-> g, wild |-> wild]

\* a variant that never goes back to 0
CycledNoWrap(v, n) == Byte(v + 1)

\* if (setupVal == nbr_setup) setupVal = 0; else setupVal++;
Cycled(v, n) == IF v = n THEN 0 ELSE Byte(v + 1)

StrayTime(s) == T(s.stray, s.stray)
StrayLamp(s) ==
    [onH |-> StrayTime(s), offH |-> StrayTime(s), active |-> s.stray]

\* lamps[choosed] and thing->times[choosed] as the step reads them
LampAt(s) == IF s.choosed < 3 THEN s.lamps[s.choosed + 1] ELSE StrayLamp(s)
TimeAt(s, k, c) ==
    IF c < MaxEvents THEN s[k].times[c + 1] ELSE StrayTime(s)

\* the step indexed an array of n elements with c
Indexed(s, c, n) == IF c < n THEN s ELSE [s EXCEPT !.wild = TRUE]

(***************************************************************************)
(* hourSelection: button 2 steps the focused component of timeSelected,    *)
(* a short press of button 1 on the hour moves the focus to the minute.    *)
(* A short press of button 1 on the minute is left in the slot for the     *)
(* caller.                                                                 *)
(***************************************************************************)
hourSelection(s) ==
    LET t == s.timeSelected IN
    IF s.HorM = 0
    THEN IF s.press \in {p_bt2_s, p_bt2_r}
         THEN [s EXCEPT !.timeSelected.hours =
                            IF t.hours = 23 THEN 0 ELSE Byte(t.hours + 1),
                        !.press = p_none]
         ELSE IF s.press = p_bt1_s
         THEN [s EXCEPT !.press = p_none, !.HorM = Byte(s.HorM + 1)]
         ELSE s
    ELSE IF s.press = p_bt2_s
         THEN [s EXCEPT !.timeSelected.minutes =
                            IF Byte(t.minutes + 1) > 59 THEN 0
                            ELSE Byte(t.minutes + 1),
                        !.press = p_none]
         ELSE IF s.press = p_bt2_r
         THEN [s EXCEPT !.timeSelected.minutes =
                            IF Byte(t.minutes + 5) > 59
                            THEN Byte(t.minutes + 5) - 60
                            ELSE Byte(t.minutes + 5),
                        !.press = p_none]
         ELSE s

\* a variant that steps back one sub menu whatever the focus
BackOneSubMenu(s) ==
    [s EXCEPT !.press = p_none, !.subMenu = Byte(s.subMenu + 255)]

\* a variant that stores the time under edit as the pump's start time
\* before it steps back
BackOneStepStores(s) ==
    IF s.HorM # 0
    THEN [s EXCEPT !.press = p_none, !.HorM = 0,
                   !.buse.startH = s.timeSelected]
    ELSE [s EXCEPT !.press = p_none, !.subMenu = Byte(s.subMenu + 255),
                   !.buse.startH = s.timeSelected]

\* the long press of button 1 in a time edit: back to the hour, or back
\* one sub menu
BackOneStep(s) ==
    IF s.HorM # 0
    THEN [s EXCEPT !.press = p_none, !.HorM = 0]
    ELSE [s EXCEPT !.press = p_none, !.subMenu = Byte(s.subMenu + 255)]

(***************************************************************************)
(* setup_menu: button 2 scrolls through the entries, button 1 enters the   *)
(* selected menu.                                                          *)
(***************************************************************************)
setup_menu(s0) ==
    LET s == [s0 EXCEPT !.nbr_setup = 6]
        s1 == IF s.press = p_bt2_s
              THEN [s EXCEPT !.setupVal = Cycled(s.setupVal, 6),
                             !.press = p_none]
              ELSE s
        s2 == Indexed(s1, s1.setupVal, 7)       \* menuName[setupVal]
    IN  IF s2.press = p_bt1_s
        THEN [s2 EXCEPT !.press = p_none,
                        !.timeSelected = IF s2.setupVal + 2 = m_time
                                         THEN s2.globalTime ELSE @,
                        !.menu = Byte(s2.menu + s2.setupVal + 1),
                        !.setupVal = 0]
        ELSE s2

(***************************************************************************)
(* lamp_menu: lamp choice, enabled?, on time, off time.                    *)
(***************************************************************************)
SetLamp(s, field, v) ==
    IF s.choosed < 3
    THEN [s EXCEPT !.lamps[s.choosed + 1][field] = v]
    ELSE [s EXCEPT !.wild = TRUE]

lamp_menu(s0) ==
    LET s == [s0 EXCEPT !.nbr_setup = 2] IN
    CASE s.subMenu = 0 ->
           LET r == IF s.press = p_bt2_s
                    THEN [s EXCEPT !.setupVal = Cycled(s.setupVal, 2),
                                   !.press = p_none]
                    ELSE IF s.press = p_bt1_s
                    THEN [s EXCEPT !.press = p_none, !.choosed = s.setupVal,
                                   !.subMenu = Byte(s.subMenu + 1)]
                    ELSE IF s.press = p_bt1_l
                    THEN [s EXCEPT !.press = p_none, !.menu = m_setup]
                    ELSE s
           IN  Indexed(r, r.setupVal, 3)        \* lampName[setupVal]
      [] s.subMenu = 1 ->
           LET l == LampAt(s)
               r == Indexed(s, s.choosed, 3)
           IN  IF s.press = p_bt2_s
               THEN SetLamp([r EXCEPT !.press = p_none], "active",
                            IF l.active # 0 THEN 0 ELSE 1)
               ELSE IF s.press = p_bt1_s
               THEN [r EXCEPT !.press = p_none, !.timeSelected = l.onH,
                              !.subMenu = IF l.active # 0
                                          THEN Byte(s.subMenu + 1)
                                          ELSE Byte(s.subMenu + 255)]
               ELSE IF s.press = p_bt1_l
               THEN [r EXCEPT !.press = p_none, !.subMenu = 0]
               ELSE r
      [] s.subMenu = 2 ->
           LET h == hourSelection(s) IN
           IF h.press = p_bt1_s
           THEN LET w == SetLamp([h EXCEPT !.press = p_none], "onH",
                                 h.timeSelected)
                IN  [Indexed(w, w.choosed, 3) EXCEPT
                        !.HorM = 0, !.timeSelected = LampAt(w).offH,
                        !.subMenu = Byte(h.subMenu + 1)]
           ELSE IF h.press = p_bt1_l THEN BackOneStep(h)
           ELSE h
      [] s.subMenu = 3 ->
           LET h == hourSelection(s) IN
           IF h.press = p_bt1_s
           THEN [SetLamp([h EXCEPT !.press = p_none], "offH", h.timeSelected)
                    EXCEPT !.HorM = 0, !.menu = m_setup, !.subMenu = 0,
                           !.choosed = 0, !.setupVal = 0]
           ELSE IF h.press = p_bt1_l THEN BackOneStep(h)
           ELSE h
      [] OTHER -> s

(***************************************************************************)
(* extra_menu(thing), k naming the schedule: add or edit, choice of the    *)
(* entry to edit, run duration, enabled?, trigger time, memory full.       *)
(***************************************************************************)
Completed(s) ==
    [s EXCEPT !.menu = m_setup, !.subMenu = 0, !.choosed = 0, !.setupVal = 0]

\* case 2, add: a new entry at index nbr, or memory full
AddEntryUnchecked(s, k) ==
    [s EXCEPT !.choosed = s[k].nbr, ![k].nbr = Byte(s[k].nbr + 1),
              !.subMenu = Byte(s.subMenu + 3), !.timeSelected = T(8, 0)]

AddEntry(s, k) ==
    IF s[k].nbr < 10
    THEN [s EXCEPT !.choosed = s[k].nbr, ![k].nbr = Byte(s[k].nbr + 1),
                   !.subMenu = Byte(s.subMenu + 3), !.timeSelected = T(8, 0)]
    ELSE [s EXCEPT !.subMenu = Byte(s.subMenu + 4)]

extra_menu(s0, k) ==
    LET s == IF s0[k].nbr = 0 /\ s0.subMenu = 0
             THEN [s0 EXCEPT !.subMenu = 3, !.nbr_setup = 59,
                             !.setupVal = s0[k].tOn]
             ELSE s0
        x == s[k]
    IN
    CASE s.subMenu = 0 ->
           LET n == [s EXCEPT !.nbr_setup = 1]
               r == IF s.press = p_bt2_s
                    THEN [n EXCEPT !.setupVal = Cycled(s.setupVal, 1),
                                   !.press = p_none]
                    ELSE IF s.press = p_bt1_s
                    THEN [n EXCEPT !.press = p_none,
                                   !.subMenu = Byte(s.subMenu + s.setupVal + 1)]
                    ELSE n
           IN  Indexed(r, r.setupVal, 2)        \* extraMenu[setupVal]
      [] s.subMenu = 1 ->
           LET n == [s EXCEPT !.nbr_setup = x.nbr]
               a == IF n.press = p_bt2_s
                    THEN [n EXCEPT !.setupVal = Cycled(n.setupVal, x.nbr),
                                   !.press = p_none]
                    ELSE n
               b == IF a.press = p_bt1_s
                    THEN IF a.setupVal = a.nbr_setup
                         THEN [a EXCEPT !.press = p_none,
                                        !.subMenu = Byte(a.subMenu + 2),
                                        !.setupVal = x.tOn]
                         ELSE [Indexed(a, a.setupVal, MaxEvents) EXCEPT
                                  !.press = p_none,
                                  !.choosed = a.setupVal,
                                  !.subMenu = Byte(a.subMenu + 3),
                                  !.timeSelected = TimeAt(a, k, a.setupVal)]
                    ELSE a
           IN  IF b.setupVal = b.nbr_setup THEN b
               ELSE Indexed(b, b.setupVal, MaxEvents)   \* times[setupVal]
      [] s.subMenu = 2 -> AddEntry(s, k)
      [] s.subMenu = 3 ->
           IF s.press \in {p_bt2_s, p_bt2_r}
           THEN [s EXCEPT !.setupVal = Cycled(s.setupVal, s.nbr_setup),
                          !.press = p_none]
           ELSE IF s.press = p_bt2_l
           THEN [s EXCEPT !.press = p_none, !.setupVal = 0]
           ELSE IF s.press = p_bt1_s
           THEN [s EXCEPT !.press = p_none, ![k].tOn = s.setupVal,
                          !.subMenu = Byte(s.subMenu + 1)]
           ELSE IF s.press = p_bt1_l
           THEN [s EXCEPT !.press = p_none, !.setupVal = 0, !.menu = m_setup]
           ELSE s
      [] s.subMenu = 4 ->
           IF s.press = p_bt2_s
           THEN [s EXCEPT !.press = p_none,
                          ![k].active = IF x.active # 0 THEN 0 ELSE 1]
           ELSE IF s.press = p_bt1_s
           THEN LET r == [Indexed(s, s.choosed, MaxEvents) EXCEPT
                             !.press = p_none,
                             !.timeSelected = TimeAt(s, k, s.choosed)]
                IN  IF x.active # 0 /\ x.nbr = 0
                    THEN [r EXCEPT !.subMenu = 2]
                    ELSE Completed(r)
           ELSE IF s.press = p_bt1_l
           THEN [s EXCEPT !.press = p_none, !.menu = m_setup]
           ELSE s
      [] s.subMenu = 5 ->
           LET h == hourSelection(s) IN
           IF h.press = p_bt1_s
           THEN LET w == IF h.choosed < MaxEvents
                         THEN [h EXCEPT ![k].times[h.choosed + 1] =
                                            h.timeSelected]
                         ELSE [h EXCEPT !.wild = TRUE]
                IN  Completed([w EXCEPT !.press = p_none, !.HorM = 0])
           ELSE IF h.press = p_bt1_l THEN BackOneStep(h)
           ELSE h
      [] s.subMenu = 6 ->
           IF s.press \in {p_bt1_s, p_bt2_s}
           THEN Completed([s EXCEPT !.press = p_none, !.HorM = 0])
           ELSE s
      [] OTHER -> s

(***************************************************************************)
(* buse_menu: enabled?, run duration, start time, stop time.               *)
(***************************************************************************)
buse_menu(s0) ==
    LET s == [s0 EXCEPT !.nbr_setup = 200] IN
    CASE s.subMenu = 0 ->
           IF s.press = p_bt2_s
           THEN [s EXCEPT !.press = p_none,
                          !.buse.active = IF s.buse.active # 0 THEN 0 ELSE 1]
           ELSE IF s.press = p_bt1_s
           THEN IF s.buse.active # 0
                THEN [s EXCEPT !.press = p_none,
                               !.subMenu = Byte(s.subMenu + 1)]
                ELSE [s EXCEPT !.press = p_none, !.menu = m_setup]
           ELSE IF s.press = p_bt1_l
           THEN [s EXCEPT !.press = p_none, !.menu = m_setup]
           ELSE s
      [] s.subMenu = 1 ->
           IF s.press = p_bt2_s
           THEN [s EXCEPT !.setupVal = Cycled(s.setupVal, 200),
                          !.press = p_none]
           ELSE IF s.press = p_bt2_r
           THEN [s EXCEPT !.setupVal = IF Byte(s.setupVal + 5) = 200 THEN 0
                                       ELSE Byte(s.setupVal + 5),
                          !.press = p_none]
           ELSE IF s.press = p_bt1_s
           THEN [s EXCEPT !.press = p_none, !.buse.tOn = s.setupVal,
                          !.timeSelected = s.buse.startH,
                          !.subMenu = Byte(s.subMenu + 1)]
           ELSE IF s.press = p_bt1_l
           THEN [s EXCEPT !.press = p_none, !.menu = m_setup]
           ELSE s
      [] s.subMenu = 2 ->
           LET h == hourSelection(s) IN
           IF h.press = p_bt1_s
           THEN [h EXCEPT !.press = p_none, !.buse.startH = h.timeSelected,
                          !.timeSelected = h.buse.stopH, !.HorM = 0,
                          !.subMenu = Byte(h.subMenu + 1)]
           ELSE IF h.press = p_bt1_l THEN BackOneStep(h)
           ELSE h
      [] s.subMenu = 3 ->
           LET h == hourSelection(s) IN
           IF h.press = p_bt1_s
           THEN Completed([h EXCEPT !.press = p_none,
                                    !.buse.stopH = h.timeSelected, !.HorM = 0])
           ELSE IF h.press = p_bt1_l THEN BackOneStep(h)
           ELSE h
      [] OTHER -> s

(***************************************************************************)
(* time_menu: the validated time is written to the local clock and, with   *)
(* the seconds counter as it stands, to the RTC; then the counter is       *)
(* cleared.                                                                *)
(***************************************************************************)
TimeValidatedLocalOnly(h) ==
    [h EXCEPT !.press = p_none, !.HorM = 0, !.globalTime = h.timeSelected,
              !.sec = 0, !.menu = m_setup]

TimeValidated(h) ==
    [h EXCEPT !.press = p_none, !.HorM = 0,
              !.globalTime = h.timeSelected,
              !.rtc = [hours |-> h.timeSelected.hours,
                       minutes |-> h.timeSelected.minutes,
                       seconds |-> h.sec],
              !.sec = 0, !.menu = m_setup]

time_menu(s) ==
    LET h == hourSelection(s) IN
    IF h.press = p_bt1_s
    THEN TimeValidated(h)
    ELSE IF h.press = p_bt1_l
    THEN IF h.HorM # 0
         THEN [h EXCEPT !.press = p_none, !.HorM = 0]
         ELSE [h EXCEPT !.press = p_none, !.menu = m_setup]
    ELSE h

(***************************************************************************)
(* menu_task: one iteration of the loop outside the save menu (for which   *)
(* see SaveToEEPROM).  A menu value without a case does nothing.           *)
(***************************************************************************)
MenuSwitch(s) ==
    CASE s.menu = m_off ->
           IF s.press # 0 THEN [s EXCEPT !.press = 0, !.menu = 1] ELSE s
      [] s.menu = m_setup -> setup_menu(s)
      [] s.menu = m_lamp -> lamp_menu(s)
      [] s.menu = m_buse -> buse_menu(s)
      [] s.menu = m_brume -> extra_menu(s, "brume")
      [] s.menu = m_bulle -> extra_menu(s, "bulles")
      [] s.menu = m_time -> time_menu(s)
      [] s.menu = m_exit -> [s EXCEPT !.menu = 0]
      [] OTHER -> s

(***************************************************************************)
(* Variants of the loop body that differ from the code: the menu wakes on  *)
(* short presses only; the memory-full notice goes away on any event; the  *)
(* slot is emptied at the end of every iteration.                          *)
(***************************************************************************)
MenuStepWakeOnShort(s) ==
    IF s.menu = m_off /\ s.press \notin {p_bt1_s, p_bt2_s}
    THEN s ELSE MenuSwitch(s)

MenuStepDismissAny(s) ==
    IF s.menu \in {m_brume, m_bulle} /\ s.subMenu = 6 /\ s.press # p_none
    THEN [s EXCEPT !.press = p_none, !.menu = m_setup, !.subMenu = 0,
                   !.choosed = 0, !.setupVal = 0]
    ELSE MenuSwitch(s)

MenuStepClearsSlot(s) == [MenuSwitch(s) EXCEPT !.press = p_none]

MenuStep(s) == MenuSwitch(s)

(***************************************************************************)
(* What an iteration starts from, kept for the properties: the event in    *)
(* the slot and the menu position.                                         *)
(***************************************************************************)
Seen == [press |-> press, menu |-> menu, subMenu |-> subMenu, HorM |-> HorM]

NotSeen == [press |-> p_none, menu |-> m_off, subMenu |-> 0, HorM |-> 0]

MenuTask ==
    /\ menu # m_save
    /\ seen' = Seen
    /\ \E g \in Stray :
         LET s == MenuStep(MenuState(g)) IN
         /\ press' = s.press /\ menu' = s.menu /\ subMenu' = s.subMenu
         /\ HorM' = s.HorM /\ choosed' = s.choosed
         /\ timeSelected' = s.timeSelected
         /\ setupVal' = s.setupVal /\ nbr_setup' = s.nbr_setup
         /\ lamps' = s.lamps /\ buse' = s.buse
         /\ brume' = s.brume /\ bulles' = s.bulles
         /\ globalTime' = s.globalTime /\ sec' = s.sec /\ rtc' = s.rtc
         /\ wild' = s.wild
    /\ UNCHANGED <<bt1, bt2, hold, emit, pinOut, presses, ktime, skew, lampNbr,
                   buseFlag, busePc, buseWake, fires, storeVars, lastEval>>

(***************************************************************************)
(* input_task as the menu sees it: an event is written to the press slot,  *)
(* over whatever the slot holds.                                           *)
(***************************************************************************)
SlotWritten(n, events) ==
    /\ presses < n
    /\ \E p \in events : press' = p
    /\ presses' = presses + 1
    /\ UNCHANGED <<bt1, bt2, hold, emit, pinOut, menu, subMenu, HorM, choosed,
                   timeSelected, setupVal, nbr_setup, wild, seen, clockVars,
                   lampVars, buseVars, extraVars, storeVars, lastEval>>

\* a variant in which the writer may also empty the slot
SlotWrittenOrEmptied == SlotWritten(MaxPresses, p_none..p_bt2_r)

PressWrittenUpTo(n) == SlotWritten(n, p_bt1_s..p_bt2_r)

PressWritten == PressWrittenUpTo(MaxPresses)

EditWritten == PressWrittenUpTo(MaxEdits)

(***************************************************************************)
(* Globals as the C start-up code and setup() leave them before the        *)
(* store is looked at: everything zero, lamps[1] and the pump seeded.      *)
(***************************************************************************)
ZeroLamp == [onH |-> T(0, 0), offH |-> T(0, 0), active |-> 0]
ZeroExtras ==
    [nbr |-> 0, tOn |-> 0, times |-> [i \in 1..MaxEvents |-> T(0, 0)],
     active |-> 0]
SeedLamps ==
    <<ZeroLamp, [onH |-> T(8, 0), offH |-> T(22, 0), active |-> 0], ZeroLamp>>
SeedBuse == [tOn |-> 5, startH |-> T(8, 0), stopH |-> T(21, 0), active |-> 0]
ZeroButton == [val |-> 0, mode |-> 0, time |-> 0]
NeverEvaluated ==
    [lamp |-> NoTime, buse |-> NoTime, brume |-> NoTime, bulles |-> NoTime]

Configuration ==
    [lamps |-> lamps, buse |-> buse, brume |-> brume, bulles |-> bulles]
NoConfiguration == [lamps |-> <<>>]

\* the store holds a configuration: EEPROM.read(0x00) is the marker
ConfiguredAlways(mem) == TRUE
Configured(mem) == mem[0] = Marker

(***************************************************************************)
(* setup() after a power cycle: the RAM is initialised, the clock is read  *)
(* from the RTC, the defaults are seeded and the store is loaded when its  *)
(* marker matches.  phase records whether the boot follows a save.         *)
(***************************************************************************)
Setup ==
    /\ bt1' = ZeroButton /\ bt2' = ZeroButton /\ press' = p_none
    /\ hold' = <<0, 0>> /\ emit' = <<p_none, p_none>>
    /\ pinOut' = [p \in OutPins |-> 0]
    /\ globalTime' = T(rtc.hours, rtc.minutes)
    /\ sec' = 0 /\ ktime' = 0 /\ skew' = 0
    /\ lampNbr' = 0 /\ buseFlag' = 0
    /\ busePc' = "eval" /\ buseWake' = 0 /\ fires' = 0
    /\ lastEval' = NeverEvaluated
    /\ subMenu' = 0 /\ HorM' = 0 /\ choosed' = 0 /\ timeSelected' = T(0, 0)
    /\ setupVal' = 0 /\ nbr_setup' = 3 /\ presses' = 0 /\ wild' = FALSE
    /\ seen' = NotSeen
    /\ IF ~Configured(EEPROM)
       THEN /\ menu' = m_setup
            /\ lamps' = SeedLamps
            /\ buse' = SeedBuse
            /\ brume' = ZeroExtras
            /\ bulles' = ZeroExtras
       ELSE /\ menu' = m_off
            /\ lamps' = RestoredLamps(EEPROM)
            /\ buse' = RestoredBuse(EEPROM)
            /\ brume' = RestoredBrume(EEPROM)
            /\ bulles' = RestoredBulles(EEPROM)
    /\ phase' = IF phase = "saved" THEN "reloaded" ELSE "loaded"
    /\ UNCHANGED <<rtc, EEPROM, saved>>

(***************************************************************************)
(* menu_task in the save menu: saveToEEPROM.  The marker, the lamps, the   *)
(* pump and the mist records are written; the last statement is            *)
(* EEPROM.get(memAddress, bulles), which reads the stored bubbler record   *)
(* into the Configuration instead of writing it.                           *)
(***************************************************************************)
SaveToEEPROMStays ==
    /\ menu = m_save
    /\ EEPROM' = WithRecords(Put(EEPROM, 0, <<Marker>>), lamps, buse, brume)
    /\ bulles' = ExtrasOf(Get(EEPROM, AddrBulles, SizeExtras))
    /\ saved' = Configuration
    /\ phase' = "saved"
    /\ UNCHANGED <<inputVars, pinOut, menu, menuVars, clockVars, lampVars,
                   buseVars, brume, lastEval>>

SaveToEEPROM ==
    /\ menu = m_save
    /\ EEPROM' = WithRecords(Put(EEPROM, 0, <<Marker>>), lamps, buse, brume)
    /\ bulles' = ExtrasOf(Get(EEPROM, AddrBulles, SizeExtras))
    /\ menu' = m_setup
    /\ saved' = Configuration
    /\ phase' = "saved"
    /\ UNCHANGED <<inputVars, pinOut, menuVars, clockVars, lampVars, buseVars,
                   brume, lastEval>>

(***************************************************************************)
(* Initial states.  Every specification starts where setup() hands over    *)
(* to the tasks: the clock read from the RTC, the outputs still at the     *)
(* level 0 of a pin just made an output, the Configuration as loaded.      *)
(***************************************************************************)
InitInputVars ==
    /\ bt1 = ZeroButton /\ bt2 = ZeroButton /\ press = p_none
    /\ hold = <<0, 0>> /\ emit = <<p_none, p_none>>

InitMenuVars ==
    /\ subMenu = 0 /\ HorM = 0 /\ choosed = 0 /\ timeSelected = T(0, 0)
    /\ setupVal = 0 /\ nbr_setup = 3 /\ presses = 0 /\ wild = FALSE
    /\ seen = NotSeen

InitOutputs ==
    /\ pinOut = [p \in OutPins |-> 0]
    /\ lampNbr = 0 /\ buseFlag = 0
    /\ busePc = "eval" /\ buseWake = 0 /\ fires = 0
    /\ lastEval = NeverEvaluated

BootedAt(t) ==
    /\ globalTime = t /\ sec = 0
    /\ rtc = [hours |-> t.hours, minutes |-> t.minutes, seconds |-> 0]
    /\ ktime = 0 /\ skew = 0

\* n seconds after a boot at t, the local clock and the RTC in step
ClockAfter(t, n) ==
    /\ globalTime = t /\ sec = n
    /\ rtc = [hours |-> t.hours, minutes |-> t.minutes, seconds |-> n]
    /\ ktime = n /\ skew = 0

InitStoreBlank ==
    /\ EEPROM = BlankStore
    /\ phase = "loaded" /\ saved = NoConfiguration

\* the input classifier alone
InitInput ==
    /\ InitInputVars /\ InitMenuVars /\ InitOutputs /\ BootedAt(T(0, 0)) /\ InitStoreBlank
    /\ menu = m_setup
    /\ lamps = SeedLamps /\ buse = SeedBuse
    /\ brume = ZeroExtras /\ bulles = ZeroExtras

SpecInput == InitInput /\ [][InputTask]_vars

\* the lamp evaluator and the clock
LampRecs ==
    {[onH |-> T(8, 30), offH |-> T(22, 0), active |-> 1],
     [onH |-> T(8, 0), offH |-> T(22, 30), active |-> 0]}
LampBootTimes ==
    {T(7, 59), T(8, 10), T(8, 59), T(21, 59), T(22, 0), T(23, 10)}

InitLamp ==
    /\ InitInputVars /\ InitMenuVars /\ InitOutputs /\ InitStoreBlank
    /\ \E t \in LampBootTimes : BootedAt(t)
    /\ menu = m_off
    /\ lamps \in {<<a, b, c>> : a \in LampRecs, b \in LampRecs, c \in LampRecs}
    /\ buse = SeedBuse /\ brume = ZeroExtras /\ bulles = ZeroExtras

SpecLamp == InitLamp /\ [][LampTask \/ TimeTask \/ RtcTick]_vars

\* the clock alone, around a minute and an hour rollover
ClockBootTimes == {T(8, 10), T(8, 59), T(23, 59)}

InitClock ==
    /\ InitInputVars /\ InitMenuVars /\ InitOutputs /\ InitStoreBlank
    /\ \E t \in ClockBootTimes : BootedAt(t)
    /\ menu = m_off
    /\ lamps = SeedLamps /\ buse = SeedBuse
    /\ brume = ZeroExtras /\ bulles = ZeroExtras

SpecClock == InitClock /\ [][TimeTask \/ RtcTick]_vars

\* the pump evaluator and the clock
PumpScenario == [tOn |-> 5, startH |-> T(8, 0), stopH |-> T(21, 0), active |-> 1]
BuseRecs == {PumpScenario, [PumpScenario EXCEPT !.active = 0]}
BuseBootTimes == {T(7, 59), T(8, 0)}

InitBuse ==
    /\ InitInputVars /\ InitMenuVars /\ InitOutputs /\ InitStoreBlank
    /\ \E t \in BuseBootTimes : BootedAt(t)
    /\ menu = m_off
    /\ lamps = SeedLamps
    /\ buse \in BuseRecs
    /\ brume = ZeroExtras /\ bulles = ZeroExtras

SpecBuse == InitBuse /\ [][BuseEval \/ BuseWake \/ TimeTask \/ RtcTick]_vars

\* the mist and bubbler evaluators and the clock, on the same schedule
OneEvent(t, d, a) ==
    [nbr |-> 1, tOn |-> d,
     times |-> [i \in 1..MaxEvents |-> IF i = 1 THEN t ELSE T(0, 0)],
     active |-> a]
ExtraRecs ==
    {OneEvent(T(8, 30), 10, 1), OneEvent(T(8, 59), 1, 1),
     OneEvent(T(23, 59), 1, 1), OneEvent(T(8, 30), 100, 1),
     OneEvent(T(8, 30), 10, 0)}
ExtraBootTimes ==
    {T(8, 10), T(8, 29), T(8, 40), T(8, 59), T(10, 10), T(23, 59), T(0, 0)}

InitExtra ==
    /\ InitInputVars /\ InitMenuVars /\ InitOutputs /\ InitStoreBlank
    /\ \E t \in ExtraBootTimes : BootedAt(t)
    /\ menu = m_off
    /\ lamps = SeedLamps /\ buse = SeedBuse
    /\ brume \in ExtraRecs /\ bulles = brume

SpecExtra == InitExtra /\ [][BrumeTask \/ BullesTask \/ TimeTask \/ RtcTick]_vars

\* the store: save in the save menu, power cycles
RamLamps ==
    {SeedLamps,
     <<[onH |-> T(6, 15), offH |-> T(23, 59), active |-> 1],
       [onH |-> T(8, 0), offH |-> T(22, 0), active |-> 1],
       [onH |-> T(0, 0), offH |-> T(12, 30), active |-> 0]>>}
RamBuse ==
    {PumpScenario,
     [tOn |-> 200, startH |-> T(0, 0), stopH |-> T(23, 59), active |-> 0]}
FullExtras ==
    [nbr |-> MaxEvents, tOn |-> 200,
     times |-> [i \in 1..MaxEvents |-> T(i + 13, 60 - i)], active |-> 1]
RamExtras == {FullExtras, OneEvent(T(8, 30), 10, 1)}

StoredLamps ==
    {<<[onH |-> T(7, 0), offH |-> T(21, 45), active |-> 1],
       [onH |-> T(9, 0), offH |-> T(20, 0), active |-> 0],
       [onH |-> T(10, 5), offH |-> T(19, 0), active |-> 1]>>,
     <<[onH |-> T(7, 0), offH |-> T(21, 45), active |-> 7],
       [onH |-> T(9, 0), offH |-> T(20, 0), active |-> 1],
       [onH |-> T(10, 5), offH |-> T(19, 0), active |-> 1]>>}
StoredBuse ==
    {[tOn |-> 30, startH |-> T(9, 15), stopH |-> T(18, 0), active |-> 1],
     [tOn |-> 30, startH |-> T(9, 15), stopH |-> T(18, 0), active |-> 7],
     [tOn |-> 201, startH |-> T(9, 15), stopH |-> T(18, 0), active |-> 1]}
TwoEvents(n, d, a) ==
    [nbr |-> n, tOn |-> d,
     times |-> [i \in 1..MaxEvents |->
                  IF i = 1 THEN T(7, 30) ELSE IF i = 2 THEN T(19, 55)
                  ELSE T(255, 255)],
     active |-> a]
StoredExtras ==
    {TwoEvents(2, 15, 1), TwoEvents(2, 15, 7), TwoEvents(11, 15, 1),
     TwoEvents(2, 201, 1)}
StoredMarkers == {Marker, 255}

StoredImage(m, ls, p, x, y) ==
    Put(WithRecords(Put(BlankStore, 0, <<m>>), ls, p, x),
        AddrBulles, ExtrasBytes(y))

InitStore ==
    /\ InitInputVars /\ InitMenuVars /\ InitOutputs
    /\ \E t \in {T(12, 0)} : BootedAt(t)
    /\ menu = m_save
    /\ lamps \in RamLamps /\ buse \in RamBuse
    /\ brume \in RamExtras /\ bulles \in RamExtras
    /\ EEPROM \in {StoredImage(m, ls, p, x, y) :
                      m \in StoredMarkers, ls \in StoredLamps, p \in StoredBuse,
                      x \in StoredExtras, y \in StoredExtras}
    /\ phase = "run" /\ saved = NoConfiguration

SpecStore == InitStore /\ [][SaveToEEPROM \/ Setup]_vars

\* the menu: press events, menu steps and saves, from the boot or 42 s
\* later, after a boot from a store that is blank, holds a configuration,
\* or holds a configuration with bytes no save can have written
StrayLamps ==
    <<[onH |-> T(30, 75), offH |-> T(21, 45), active |-> 1],
      [onH |-> T(9, 0), offH |-> T(20, 0), active |-> 0],
      [onH |-> T(10, 5), offH |-> T(19, 0), active |-> 1]>>
MenuImages ==
    {BlankStore,
     StoredImage(Marker, CHOOSE ls \in RamLamps : ls # SeedLamps, PumpScenario, FullExtras,
                 OneEvent(T(8, 30), 10, 1)),
     StoredImage(Marker, StrayLamps, PumpScenario, TwoEvents(2, 15, 1),
                 TwoEvents(11, 15, 1))}

InitMenu ==
    /\ InitInputVars /\ InitMenuVars /\ InitOutputs
    /\ \E n \in {0, 42} : ClockAfter(T(12, 0), n)
    /\ EEPROM \in MenuImages
    /\ phase = "loaded" /\ saved = NoConfiguration
    /\ IF ~Configured(EEPROM)
       THEN /\ menu = m_setup
            /\ lamps = SeedLamps /\ buse = SeedBuse
            /\ brume = ZeroExtras /\ bulles = ZeroExtras
       ELSE /\ menu = m_off
            /\ lamps = RestoredLamps(EEPROM) /\ buse = RestoredBuse(EEPROM)
            /\ brume = RestoredBrume(EEPROM)
            /\ bulles = RestoredBulles(EEPROM)

SpecMenu == InitMenu /\ [][PressWritten \/ MenuTask \/ SaveToEEPROM]_vars

\* the menu and the press slot over a longer run of events, booted from one
\* store whose mist schedule holds one trigger time and the longest run
\* duration that restoreFromEEPROM lets through
EditImage ==
    StoredImage(Marker, SeedLamps, PumpScenario, OneEvent(T(8, 30), 200, 1),
                ZeroExtras)

InitEdit ==
    /\ InitInputVars /\ InitMenuVars /\ InitOutputs /\ BootedAt(T(12, 0))
    /\ EEPROM = EditImage
    /\ phase = "loaded" /\ saved = NoConfiguration
    /\ menu = m_off
    /\ lamps = RestoredLamps(EEPROM) /\ buse = RestoredBuse(EEPROM)
    /\ brume = RestoredBrume(EEPROM) /\ bulles = RestoredBulles(EEPROM)

SpecEdit == InitEdit /\ [][EditWritten \/ MenuTask \/ SaveToEEPROM]_vars

\* the pump, the clock and the menu together, 68 seconds after a boot at
\* 07:59 from EditImage (pump enabled, 5 seconds every hour from 08:00):
\* buse_task has so far found 07:59 and switched the output off, and five
\* press events (wake, short button 2, short button 1, short button 2
\* twice) have opened the pump menu and toggled the pump off and on again
InitPumpMenu ==
    /\ InitInputVars
    /\ menu = m_buse /\ subMenu = 0 /\ HorM = 0 /\ choosed = 0
    /\ timeSelected = T(0, 0) /\ setupVal = 0 /\ nbr_setup = 200
    /\ presses = 5 /\ wild = FALSE
    /\ seen = [press |-> p_bt2_s, menu |-> m_buse, subMenu |-> 0, HorM |-> 0]
    /\ pinOut = [p \in OutPins |-> IF p = busePin THEN 1 ELSE 0]
    /\ lampNbr = 0 /\ buseFlag = 0
    /\ busePc = "eval" /\ buseWake = 0 /\ fires = 0
    /\ lastEval = [NeverEvaluated EXCEPT !.buse = T(7, 59)]
    /\ globalTime = T(8, 0) /\ sec = 8
    /\ rtc = [hours |-> 8, minutes |-> 0, seconds |-> 8]
    /\ ktime = 68 /\ skew = 0
    /\ EEPROM = EditImage
    /\ phase = "loaded" /\ saved = NoConfiguration
    /\ lamps = RestoredLamps(EEPROM) /\ buse = RestoredBuse(EEPROM)
    /\ brume = RestoredBrume(EEPROM) /\ bulles = RestoredBulles(EEPROM)

SpecPumpMenu ==
    InitPumpMenu /\ [][BuseEval \/ BuseWake \/ TimeTask \/ RtcTick
                         \/ PressWritten \/ MenuTask]_vars

\* the lamps, the clock and the menu together, 68 seconds after a boot at
\* 07:59 from a store in which lamp 1 alone is enabled, 06:15 to 23:59:
\* lamp_task has so far found 07:59 and switched lamp 1 and the backlight
\* on, and five press events (wake, short button 1 twice, short button 2
\* twice) have opened the lamp menu on lamp 1 and toggled it off and on
\* again
OneLamp ==
    <<[onH |-> T(6, 15), offH |-> T(23, 59), active |-> 1],
      [onH |-> T(8, 0), offH |-> T(22, 0), active |-> 0],
      [onH |-> T(0, 0), offH |-> T(12, 30), active |-> 0]>>
LampImage ==
    StoredImage(Marker, OneLamp, SeedBuse, ZeroExtras, ZeroExtras)

InitLampMenu ==
    /\ InitInputVars
    /\ menu = m_lamp /\ subMenu = 1 /\ HorM = 0 /\ choosed = 0
    /\ timeSelected = T(0, 0) /\ setupVal = 0 /\ nbr_setup = 2
    /\ presses = 5 /\ wild = FALSE
    /\ seen = [press |-> p_bt2_s, menu |-> m_lamp, subMenu |-> 1, HorM |-> 0]
    /\ pinOut = [p \in OutPins |->
                   IF p \in {lampPin[2], lampPin[3], ledFond} THEN 1 ELSE 0]
    /\ lampNbr = 1 /\ buseFlag = 0
    /\ busePc = "eval" /\ buseWake = 0 /\ fires = 0
    /\ lastEval = [NeverEvaluated EXCEPT !.lamp = T(7, 59)]
    /\ globalTime = T(8, 0) /\ sec = 8
    /\ rtc = [hours |-> 8, minutes |-> 0, seconds |-> 8]
    /\ ktime = 68 /\ skew = 0
    /\ EEPROM = LampImage
    /\ phase = "loaded" /\ saved = NoConfiguration
    /\ lamps = RestoredLamps(EEPROM) /\ buse = RestoredBuse(EEPROM)
    /\ brume = RestoredBrume(EEPROM) /\ bulles = RestoredBulles(EEPROM)

SpecLampMenu ==
    InitLampMenu /\ [][LampTask \/ TimeTask \/ RtcTick
                         \/ PressWritten \/ MenuTask]_vars

\* the four evaluators and the clock together, 50 seconds after a boot at
\* 08:29, on schedules that are due at 08:30: each device is either
\* enabled, or disabled, or (mist and bubbler) enabled with a count of 0
DeviceLamps ==
    <<[onH |-> T(7, 0), offH |-> T(21, 45), active |-> 0],
      [onH |-> T(8, 0), offH |-> T(20, 0), active |-> 1],
      [onH |-> T(8, 30), offH |-> T(20, 0), active |-> 0]>>
DevicePump == [tOn |-> 5, startH |-> T(8, 30), stopH |-> T(21, 0), active |-> 1]
DeviceExtras ==
    {<<OneEvent(T(8, 30), 10, 1), OneEvent(T(8, 30), 10, 1)>>,
     <<OneEvent(T(8, 30), 10, 0), [OneEvent(T(8, 30), 10, 1) EXCEPT !.nbr = 0]>>,
     <<[OneEvent(T(8, 30), 10, 1) EXCEPT !.nbr = 0], OneEvent(T(8, 30), 10, 0)>>}

InitDevices ==
    /\ InitInputVars /\ InitMenuVars /\ InitOutputs /\ InitStoreBlank
    /\ ClockAfter(T(8, 29), 50)
    /\ menu = m_off
    /\ lamps = DeviceLamps
    /\ buse \in {DevicePump, [DevicePump EXCEPT !.active = 0]}
    /\ \E x \in DeviceExtras : brume = x[1] /\ bulles = x[2]

SpecDevices ==
    InitDevices /\ [][LampTask \/ BuseEval \/ BuseWake \/ BrumeTask
                        \/ BullesTask \/ TimeTask \/ RtcTick]_vars


(***************************************************************************)
(* Properties of the input classifier.  hold[b] counts the consecutive     *)
(* polls that read button b's pin low: the hold lasts hold[b] poll ticks   *)
(* when a poll reads the pin high again.                                   *)
(***************************************************************************)
Buttons == {1, 2}
ShortOf(b) == IF b = 1 THEN p_bt1_s ELSE p_bt2_s
LongOf(b) == IF b = 1 THEN p_bt1_l ELSE p_bt2_l
RepeatOf(b) == IF b = 1 THEN p_bt1_r ELSE p_bt2_r
Released(b) == hold[b] >= 1 /\ hold'[b] = 0
StillHeld(b) == hold'[b] >= 1
StaysIdle(b) == hold[b] = 0 /\ hold'[b] = 0

\* C1 as stated: a hold of exactly 7 poll ticks then a release writes one
\* short event, a hold of 8 to 19 poll ticks then a release writes one long
\* event, and nothing else is written for the button during or after the hold.
C1_Original ==
    [][\A b \in Buttons :
        /\ (Released(b) /\ hold[b] = 7) => emit'[b] = ShortOf(b)
        /\ (Released(b) /\ hold[b] \in 8..19) => emit'[b] = LongOf(b)
        /\ (StillHeld(b) /\ hold'[b] <= 19) => emit'[b] = p_none
        /\ StaysIdle(b) => emit'[b] = p_none]_vars

\* C1 (amended): a hold of 1 to 9 poll ticks then a release writes exactly one
\* short event (so does a hold of exactly 7), a hold of 10 to 21 poll ticks
\* then a release writes exactly one long event; no poll of the hold up to
\* its 22nd writes an event for the button, and none is written while idle.
C1_ShortLongOnRelease ==
    [][\A b \in Buttons :
        /\ (Released(b) /\ hold[b] \in 1..9) => emit'[b] = ShortOf(b)
        /\ (Released(b) /\ hold[b] \in 10..21) => emit'[b] = LongOf(b)
        /\ (StillHeld(b) /\ hold'[b] <= 22) => emit'[b] = p_none
        /\ StaysIdle(b) => emit'[b] = p_none]_vars

\* A poll has just released button 1 after a hold long enough for a long
\* event, and the slot holds that event.
C1_Witness ==
    /\ emit[1] = p_bt1_l
    /\ press = p_bt1_l
    /\ bt1 = [val |-> 0, mode |-> ModeShort, time |-> 0]
    /\ hold[1] = 0

\* C2 as stated: the poll at which the hold reaches tick 20 (the hold
\* counter is 20 and the button is promoted to repeating) writes a long event.
C2_Original ==
    [][\A b \in Buttons :
        LET bt == IF b = 1 THEN bt1 ELSE bt2 IN
        (StillHeld(b) /\ bt.val = 1 /\ bt.mode = ModeLong /\ bt.time = RepeatAt)
            => emit'[b] = LongOf(b)]_vars

\* C2 (amended): a button held continuously is promoted to repeating at the
\* poll that finds its hold counter at 20 (the 22nd poll of the hold); that
\* poll and every other poll that reads the button pressed writes no long
\* (and no short) event, and the next poll (the 23rd) writes the first
\* repeat event.
C2_NoLongWhileHeld ==
    [][\A b \in Buttons :
        LET bt == IF b = 1 THEN bt1 ELSE bt2
            btn == IF b = 1 THEN bt1' ELSE bt2' IN
        /\ StillHeld(b) => emit'[b] \in {p_none, RepeatOf(b)}
        /\ (StillHeld(b) /\ bt.val = 1 /\ bt.mode = ModeLong
                /\ bt.time = RepeatAt)
              => /\ btn.mode = ModeRepeat
                 /\ emit'[b] = p_none
                 /\ hold'[b] = 22
        /\ hold'[b] = 23 => emit'[b] = RepeatOf(b)]_vars

\* Button 1 has just been promoted to repeating by its 22nd poll, which
\* wrote nothing to the slot.
C2_Witness ==
    /\ hold[1] = 22
    /\ bt1.mode = ModeRepeat
    /\ bt1.time = RepeatAt + 1
    /\ emit[1] = p_none
    /\ press = p_none

\* C3: while a button is held in repeating mode a repeat event is written
\* every 5 polls (at polls 23, 28, ... of the hold), each time with the
\* counter reset to 0 and then incremented by that poll; the poll that
\* releases a repeating button writes no event for it, and leaves the slot
\* as it was unless the other button writes in that poll.
C3_RepeatEveryFive ==
    [][\A b \in Buttons :
        LET bt == IF b = 1 THEN bt1 ELSE bt2
            btn == IF b = 1 THEN bt1' ELSE bt2'
            other == 3 - b IN
        /\ (StillHeld(b) /\ hold'[b] >= 23 /\ hold'[b] < MaxHold)
              => /\ btn.mode = ModeRepeat
                 /\ (emit'[b] = RepeatOf(b)) <=> ((hold'[b] - 23) % 5 = 0)
                 /\ emit'[b] \in {p_none, RepeatOf(b)}
        /\ (StillHeld(b) /\ bt.mode = ModeRepeat)
              => IF bt.time >= RepeatEvery
                 THEN emit'[b] = RepeatOf(b) /\ btn.time = 1
                 ELSE emit'[b] = p_none /\ btn.time = bt.time + 1
        /\ (Released(b) /\ bt.mode = ModeRepeat)
              => /\ emit'[b] = p_none
                 /\ btn = [val |-> 0, mode |-> ModeShort, time |-> 0]
                 /\ emit'[other] = p_none => press' = press]_vars

\* Button 1 has been released from repeating mode: the slot still holds its
\* last repeat event.
C3_Witness ==
    /\ hold[1] = 0
    /\ bt1.val = 0
    /\ emit = <<p_none, p_none>>
    /\ press = p_bt1_r
    /\ hold[2] = 0 /\ bt2.val = 0

(***************************************************************************)
(* Properties of the evaluators.  lastEval.d is the local time at the      *)
(* latest evaluation cycle of device d; only that cycle writes d's pin.    *)
(***************************************************************************)
TimeLT(a, b) ==
    a.hours < b.hours \/ (a.hours = b.hours /\ a.minutes < b.minutes)
TimeLE(a, b) == a = b \/ TimeLT(a, b)
PlusMinutes(t, d) ==
    T(((t.hours * 60 + t.minutes + d) \div 60) % 24, (t.minutes + d) % 60)
Active(pin) == pinOut[pin] = 0

\* C4 as stated: for every enabled lamp with on earlier than off, after any
\* evaluation cycle at time t the lamp output is active exactly when
\* on <= t < off.
C4_Original ==
    \A i \in 1..3 :
        (/\ lamps[i].active = 1
         /\ TimeLT(lamps[i].onH, lamps[i].offH)
         /\ lastEval.lamp # NoTime)
        => (Active(lampPin[i])
              <=> (TimeLE(lamps[i].onH, lastEval.lamp)
                     /\ TimeLT(lastEval.lamp, lamps[i].offH)))

\* C5: pump enabled, 5 s, window 08:00-21:00, latch clear.  The evaluation
\* at 08:00 switches the output on and starts the 5-second sleep; the
\* output is active for as long as the task sleeps; the return of the
\* sleep, no earlier than 5 ticks later, switches it off and sets the
\* latch; the output is activated at most once, so not again before 08:01
\* has passed.
C5_PumpScenario ==
    /\ [][(BuseEval /\ buse = PumpScenario /\ buseFlag = 0
             /\ globalTime = T(8, 0))
          => (/\ Active(busePin)'
              /\ busePc' = "run"
              /\ buseWake' = ktime + 5
              /\ fires' = fires + 1)]_vars
    /\ [][(BuseWake /\ buse = PumpScenario)
          => (~Active(busePin)' /\ buseFlag' = 1 /\ ktime >= buseWake)]_vars
    /\ [](buse = PumpScenario =>
            /\ busePc = "run" => (Active(busePin) /\ lastEval.buse = T(8, 0))
            /\ fires <= 1
            /\ (fires = 1 /\ busePc = "eval")
                 => (~Active(busePin) /\ buseFlag = 1 /\ ktime >= buseWake))

\* The pump has run once from 08:00, is off again, and the clock shows
\* 08:01 with an evaluation made in that minute.
C5_Witness ==
    /\ buse = PumpScenario
    /\ fires = 1 /\ busePc = "eval" /\ buseFlag = 1
    /\ ~Active(busePin)
    /\ globalTime = T(8, 1)
    /\ lastEval.buse = T(8, 1)

\* C6 as stated: once the pump has fired, an evaluation that finds the
\* current minute at least runDurationSeconds/60 minutes past startMinute
\* leaves the daily latch cleared (so that the pump can fire the next day).
C6_Original ==
    [][(/\ BuseEval
        /\ fires >= 1
        /\ globalTime.minutes >= buse.startH.minutes + (buse.tOn \div 60))
       => buseFlag' = 0]_vars

\* C7 as stated: for an enabled mist or bubbler schedule with count > 0,
\* after the evaluation cycle at a trigger time T the output is active and
\* after the evaluation cycle at T + d minutes it is inactive, also when the
\* off time carries into the next hour (triggers whose on or off time
\* coincides with another trigger's are left out).
EventHolds(x, pin, t) ==
    \A i \in 1..MaxEvents :
        (/\ i <= x.nbr /\ x.active = 1 /\ x.tOn \in 1..200
         /\ \A j \in 1..MaxEvents :
              (j <= x.nbr /\ j # i)
                => /\ PlusMinutes(x.times[j], x.tOn) # x.times[i]
                   /\ PlusMinutes(x.times[i], x.tOn) # x.times[j])
        => /\ t = x.times[i] => Active(pin)
           /\ t = PlusMinutes(x.times[i], x.tOn) => ~Active(pin)

C7_Original ==
    /\ EventHolds(brume, brumePin, lastEval.brume)
    /\ EventHolds(bulles, bullesPin, lastEval.bulles)

(***************************************************************************)
(* Properties of the store.  After setup() the store is as it was, so the  *)
(* stored records are read back from EEPROM.                               *)
(***************************************************************************)
Booted == phase \in {"loaded", "reloaded"}
Loaded == Booted /\ EEPROM[0] = Marker
StoredLamp(i) == LampOf(Get(EEPROM, AddrLamps + (i - 1) * SizeLamp, SizeLamp))
StoredPump == BuseOf(Get(EEPROM, AddrBuse, SizeBuse))
StoredBrume == ExtrasOf(Get(EEPROM, AddrBrume, SizeExtras))
StoredBulles == ExtrasOf(Get(EEPROM, AddrBulles, SizeExtras))
ValidLamp(l) == l.active <= 1
ValidBuse(p) == p.active <= 1 /\ p.tOn <= 200
ValidExtras(x) == x.active <= 1 /\ x.nbr <= 10 /\ x.tOn <= 200
InRange(t) == t.hours \in 0..23 /\ t.minutes \in 0..59
DocumentedRange(c) ==
    /\ \A i \in 1..3 :
         /\ InRange(c.lamps[i].onH) /\ InRange(c.lamps[i].offH)
         /\ c.lamps[i].active \in {0, 1}
    /\ InRange(c.buse.startH) /\ InRange(c.buse.stopH)
    /\ c.buse.tOn \in 0..200 /\ c.buse.active \in {0, 1}
    /\ \A x \in {c.brume, c.bulles} :
         /\ x.nbr \in 0..10 /\ x.tOn \in 0..200 /\ x.active \in {0, 1}
         /\ \A i \in 1..MaxEvents : InRange(x.times[i])

\* C8 as stated: a Configuration within the documented ranges that is saved
\* and then loaded at the next boot comes back equal field for field, for
\* the lamps, the pump, the mist and the bubbler.
C8_Original ==
    (phase = "reloaded" /\ DocumentedRange(saved)) => Configuration = saved

\* C9 as stated: a stored record whose enabled byte is 7 is loaded with the
\* device disabled and its time, duration and count fields as stored.
C9_Original ==
    Loaded =>
      /\ \A i \in 1..3 :
           StoredLamp(i).active = 7
             => lamps[i] = [StoredLamp(i) EXCEPT !.active = 0]
      /\ StoredPump.active = 7 => buse = [StoredPump EXCEPT !.active = 0]
      /\ StoredBrume.active = 7 => brume = [StoredBrume EXCEPT !.active = 0]
      /\ StoredBulles.active = 7 => bulles = [StoredBulles EXCEPT !.active = 0]

\* C9 (amended): a stored record whose enabled byte is 7 is loaded with the
\* device disabled; a lamp keeps its stored on and off times; the pump keeps
\* its stored start and stop times and its run duration becomes 0; a mist or
\* bubbler schedule keeps its ten stored trigger times and its count and run
\* duration become 0.
C9_DisabledOnBadFlag ==
    Loaded =>
      /\ \A i \in 1..3 :
           StoredLamp(i).active = 7
             => lamps[i] = [StoredLamp(i) EXCEPT !.active = 0]
      /\ StoredPump.active = 7
           => buse = [StoredPump EXCEPT !.active = 0, !.tOn = 0]
      /\ StoredBrume.active = 7
           => brume = [StoredBrume EXCEPT !.active = 0, !.nbr = 0, !.tOn = 0]
      /\ StoredBulles.active = 7
           => bulles = [StoredBulles EXCEPT !.active = 0, !.nbr = 0, !.tOn = 0]

\* A boot has loaded a store whose lamp, pump, mist and bubbler records all
\* carry the enabled byte 7, with a non-zero duration and count stored.
C9_Witness ==
    /\ Loaded
    /\ StoredLamp(1).active = 7 /\ lamps[1].active = 0
    /\ StoredPump.active = 7 /\ StoredPump.tOn = 30 /\ buse.active = 0
    /\ StoredBrume.active = 7 /\ StoredBrume.nbr = 2 /\ brume.active = 0
    /\ StoredBulles.active = 7 /\ bulles.active = 0

\* C10: after a boot-time load every device whose own stored record is
\* valid holds exactly the stored values, enabled flag included, whatever
\* is wrong in the records of the other devices.
C10_OtherDevicesAsStored ==
    Loaded =>
      /\ \A i \in 1..3 : ValidLamp(StoredLamp(i)) => lamps[i] = StoredLamp(i)
      /\ ValidBuse(StoredPump) => buse = StoredPump
      /\ ValidExtras(StoredBrume) => brume = StoredBrume
      /\ ValidExtras(StoredBulles) => bulles = StoredBulles

\* A boot has loaded a store whose pump and bubbler records are invalid
\* while lamp 1, lamp 3 and the mist are stored enabled, and they are
\* enabled after the load.
C10_Witness ==
    /\ Loaded
    /\ ~ValidBuse(StoredPump) /\ ~ValidExtras(StoredBulles)
    /\ buse.active = 0 /\ bulles.active = 0
    /\ lamps[1] = StoredLamp(1) /\ lamps[1].active = 1
    /\ lamps[3] = StoredLamp(3) /\ lamps[3].active = 1
    /\ brume = StoredBrume /\ brume.active = 1 /\ brume.nbr = 2

(***************************************************************************)
(* Properties of the menu.  A step that leaves `presses` alone outside     *)
(* the save menu is an iteration of menu_task.                             *)
(***************************************************************************)
Extras == {"brume", "bulles"}
MenuOf(k) == IF k = "brume" THEN m_brume ELSE m_bulle
Thing(k) == IF k = "brume" THEN brume ELSE bulles
MenuIteration == presses' = presses /\ menu # m_save

\* C11: choosing 'add' in the mist or bubbler menu while the schedule holds
\* 10 entries moves to the add sub menu and from there to the memory-full
\* sub menu, and the schedule (count, trigger times, duration, flag) is
\* unchanged by both steps.
C11_AddWhenFull ==
    [][\A k \in Extras :
         (MenuIteration /\ menu = MenuOf(k) /\ Thing(k).nbr = 10) =>
            /\ (subMenu = 0 /\ press = p_bt1_s /\ setupVal = 1) =>
                  (subMenu' = 2 /\ menu' = menu /\ Thing(k)' = Thing(k))
            /\ subMenu = 2 =>
                  (subMenu' = 6 /\ menu' = menu /\ Thing(k)' = Thing(k))]_vars

C11_Witness ==
    /\ menu = m_brume /\ subMenu = 6
    /\ brume.nbr = 10 /\ brume = RestoredBrume(EEPROM)

\* C12: in every reachable state the count of the mist schedule and the
\* count of the bubbler schedule are at most 10.
C12_Original == brume.nbr <= MaxEvents /\ bulles.nbr <= MaxEvents

(***************************************************************************)
(* Properties of the clock.  A step that counts a tick in ktime is an      *)
(* iteration of time_task; Incremented is the local time after its         *)
(* increment, before the comparison with the RTC.                          *)
(***************************************************************************)
ClockTick == ktime' = ktime + 1
Incremented == IF sec >= 59 THEN Ticked(globalTime) ELSE globalTime
MinuteGap ==
    IF Incremented.minutes >= rtc.minutes
    THEN Incremented.minutes - rtc.minutes
    ELSE rtc.minutes - Incremented.minutes

\* C13 as stated: on a tick after whose increment the local minute differs
\* from the RTC minute by exactly 1, the local minute becomes the RTC minute.
C13_Original ==
    [][(ClockTick /\ MinuteGap = 1) =>
          globalTime'.minutes = rtc.minutes]_vars

\* C13: on a tick after whose increment the local minute differs from the
\* RTC minute by exactly 1, the local time is left as incremented: it is
\* not set to the RTC minute.
C13_GapOfOneKept ==
    [][(ClockTick /\ MinuteGap = 1) =>
          (globalTime' = Incremented /\ globalTime'.minutes # rtc.minutes)]_vars

C13_Witness ==
    /\ ktime > 0 /\ skew = 1 /\ sec = 0
    /\ globalTime.minutes = rtc.minutes + 1
    /\ globalTime.hours = rtc.hours

\* C14 as stated: on a tick after whose increment the local minute differs
\* from the RTC minute by more than 1, the local time is left as incremented.
C14_Original ==
    [][(ClockTick /\ MinuteGap > 1) => globalTime' = Incremented]_vars

\* C14: on a tick after whose increment the local minute differs from the
\* RTC minute by more than 1, the local minute is overwritten with the RTC
\* minute and the local hour is left as incremented.
C14_LargeGapOverwritten ==
    [][(ClockTick /\ MinuteGap > 1) =>
          /\ globalTime'.minutes = rtc.minutes
          /\ globalTime'.hours = Incremented.hours]_vars

C14_Witness ==
    /\ ktime > 0 /\ skew = 1 /\ sec = 0
    /\ globalTime.minutes = rtc.minutes /\ rtc.minutes = 59
    /\ globalTime.hours # rtc.hours

\* C15: the menu iteration that finds a short press of button 1 in the clock
\* menu with the minute focused sets the local time and the RTC's hour and
\* minute to the selected time, the seconds counter to 0, the focus to the
\* hour and the menu to setup.
C15_TimeValidated ==
    [][(MenuIteration /\ menu = m_time /\ HorM # 0 /\ press = p_bt1_s) =>
          /\ globalTime' = timeSelected
          /\ rtc'.hours = timeSelected.hours
          /\ rtc'.minutes = timeSelected.minutes
          /\ sec' = 0
          /\ HorM' = 0
          /\ menu' = m_setup]_vars

C15_Witness ==
    /\ menu = m_setup /\ HorM = 0 /\ sec = 0 /\ rtc.seconds = 42
    /\ globalTime = timeSelected /\ globalTime # T(12, 0)
    /\ rtc.hours = globalTime.hours /\ rtc.minutes = globalTime.minutes

\* C16: the menu task is never in a combination of menu and sub menu for
\* which its switch statements have no case.
C16_Original ==
    /\ menu \in m_off..m_exit
    /\ menu \in {m_lamp, m_buse} => subMenu \in 0..3
    /\ menu \in {m_brume, m_bulle} => subMenu \in 0..6

\* C17: a menu iteration that returns from the lamp, pump, mist, bubbler or
\* clock menu to setup leaves subMenu = 0, the focus on the hour,
\* choosed = 0 and setupVal = 0.
C17_Original ==
    [][(/\ MenuIteration
        /\ menu \in {m_lamp, m_buse, m_brume, m_bulle, m_time}
        /\ menu' = m_setup) =>
          (subMenu' = 0 /\ HorM' = 0 /\ choosed' = 0 /\ setupVal' = 0)]_vars

\* C18: in every reachable state every TIME value (the lamp, pump, mist and
\* bubbler times, the time under edit and the local time) has its hour in
\* 0..23 and its minute in 0..59.
C18_Original ==
    /\ \A i \in 1..3 : InRange(lamps[i].onH) /\ InRange(lamps[i].offH)
    /\ InRange(buse.startH) /\ InRange(buse.stopH)
    /\ \A i \in 1..MaxEvents : InRange(brume.times[i]) /\ InRange(bulles.times[i])
    /\ InRange(timeSelected) /\ InRange(globalTime)

\* C19: after a boot from a store whose marker byte is not the marker, the
\* Configuration holds the seeded defaults only (lamp 1 08:00 to 22:00, pump
\* 5 s 08:00 to 21:00, everything disabled, no trigger times) and the menu
\* is setup; after a boot from a store with the marker, the menu is off and
\* each record is as stored when it passes its check and disabled when not.
C19_BootByMarker ==
    Booted =>
      IF EEPROM[0] # Marker
      THEN /\ menu = m_setup
           /\ lamps[2] = [onH |-> T(8, 0), offH |-> T(22, 0), active |-> 0]
           /\ lamps[1] = ZeroLamp /\ lamps[3] = ZeroLamp
           /\ buse = [tOn |-> 5, startH |-> T(8, 0), stopH |-> T(21, 0),
                      active |-> 0]
           /\ brume = ZeroExtras /\ bulles = ZeroExtras
      ELSE /\ menu = m_off
           /\ \A i \in 1..3 :
                IF ValidLamp(StoredLamp(i)) THEN lamps[i] = StoredLamp(i)
                ELSE lamps[i].active = 0
           /\ IF ValidBuse(StoredPump) THEN buse = StoredPump
              ELSE buse.active = 0
           /\ IF ValidExtras(StoredBrume) THEN brume = StoredBrume
              ELSE brume.active = 0
           /\ IF ValidExtras(StoredBulles) THEN bulles = StoredBulles
              ELSE bulles.active = 0

\* A boot found a store that holds records but not the marker, and none of
\* the stored records was loaded.
C19_Witness ==
    /\ Booted /\ EEPROM[0] # Marker /\ menu = m_setup
    /\ ValidLamp(StoredLamp(1)) /\ lamps[1] # StoredLamp(1)
    /\ ValidExtras(StoredBrume) /\ brume # StoredBrume
    /\ buse.tOn = 5

\* C20: a step that changes a byte of the persistent store is the save
\* action (the iteration of menu_task in the save menu, which records the
\* save in phase and saved), and the save action ends with the menu in
\* setup; no other step of any task changes the store.
SaveAction ==
    /\ menu = m_save /\ presses' = presses
    /\ phase' = "saved" /\ saved' = Configuration

C20_StoreWrittenBySaveOnly ==
    [][/\ EEPROM' # EEPROM => SaveAction
       /\ SaveAction => menu' = m_setup]_vars

\* A save has written the marker and the pump record over an erased store.
C20_Witness ==
    /\ phase = "saved" /\ menu = m_setup
    /\ EEPROM[0] = Marker /\ StoredPump = buse
    /\ EEPROM[AddrBulles] = 255

\* C21: an iteration of menu_task that finds the menu off and an event in the
\* slot, whichever of the six events it is, empties the slot and puts the
\* menu in setup; as long as the slot is empty the menu stays off, and no
\* other step takes the menu out of off.
C21_AnyPressWakesMenu ==
    [][menu = m_off =>
         IF MenuIteration /\ press # p_none
         THEN press' = p_none /\ menu' = m_setup
         ELSE menu' = m_off]_vars

\* The menu was off with a repeat event of button 2 in the slot, and the
\* iteration that saw it has emptied the slot and opened setup.
C21_Witness ==
    /\ seen = [NotSeen EXCEPT !.press = p_bt2_r]
    /\ menu = m_setup /\ press = p_none /\ presses = 1

\* C22: the menu is one of the nine identifiers off .. exit, and whenever
\* the menu is setup the selection index is one of the seven entries 0..6.
C22_Original ==
    /\ menu \in m_off..m_exit
    /\ menu = m_setup => setupVal \in 0..6

\* The sub menus that wait for an event, and an iteration that finds a long
\* press of button 1 with the hour in focus.
InSubState ==
    \/ menu \in {m_lamp, m_buse} /\ subMenu \in 0..3
    \/ menu \in {m_brume, m_bulle} /\ subMenu \in {0, 1, 3, 4, 5, 6}
    \/ menu = m_time

\* The first sub menu shown: sub menu 0, or for an empty mist or bubbler
\* schedule sub menu 3, to which extra_menu jumps on entry.
FirstSubState ==
    \/ menu = m_time
    \/ subMenu = 0
    \/ menu = m_brume /\ subMenu = 3 /\ brume.nbr = 0
    \/ menu = m_bulle /\ subMenu = 3 /\ bulles.nbr = 0

LongPressOnHour ==
    /\ MenuIteration /\ InSubState
    /\ press = p_bt1_l /\ HorM = 0

\* C23: in each of the lamp, pump, mist, bubbler and clock menus, a long
\* press of button 1 seen with the hour in focus leaves the menu for setup
\* when the menu is in its first sub menu, and otherwise steps back exactly
\* one sub menu within the same menu.
C23_Original ==
    [][LongPressOnHour =>
         IF FirstSubState THEN menu' = m_setup
         ELSE menu' = menu /\ subMenu' = subMenu - 1]_vars

\* The sub menus in which a time is edited with hourSelection.
TimeEditing ==
    \/ menu \in {m_lamp, m_buse} /\ subMenu \in {2, 3}
    \/ menu \in {m_brume, m_bulle} /\ subMenu = 5
    \/ menu = m_time

\* C24: in a sub menu that edits a time, an iteration of menu_task that
\* finds a long press of button 1 while the minute is in focus puts the focus
\* back on the hour and changes neither the menu, nor the sub menu, nor the
\* time under edit, nor the Configuration.
C24_LongPressOnMinute ==
    [][(MenuIteration /\ TimeEditing /\ HorM # 0 /\ press = p_bt1_l) =>
         /\ HorM' = 0
         /\ menu' = menu /\ subMenu' = subMenu
         /\ timeSelected' = timeSelected
         /\ Configuration' = Configuration]_vars

\* A long press of button 1 was seen in the lamp menu's switch-on time with
\* the minute in focus, after the hour had been edited: the hour is in focus
\* again, in the same sub menu, with the edited time still in the scratch.
C24_Witness ==
    /\ seen = [press |-> p_bt1_l, menu |-> m_lamp, subMenu |-> 2, HorM |-> 1]
    /\ menu = m_lamp /\ subMenu = 2 /\ HorM = 0 /\ press = p_none
    /\ timeSelected # lamps[choosed + 1].onH

\* An iteration of menu_task in the memory-full sub menu of the mist or
\* bubbler menu.
MemoryFullIteration ==
    MenuIteration /\ menu \in {m_brume, m_bulle} /\ subMenu = 6

\* C25 as stated: in the memory-full sub menu every event, short, long or
\* repeat, of either button, returns the menu to setup and leaves both
\* schedules untouched.
C25_Original ==
    [][(MemoryFullIteration /\ press # p_none) =>
         /\ menu' = m_setup
         /\ brume' = brume /\ bulles' = bulles]_vars

\* C25: in the memory-full sub menu a short press of either button empties
\* the slot and returns the menu to setup with sub menu 0; a long or repeat
\* event is not acted on: it stays in the slot and the menu stays in the
\* memory-full sub menu.  In both cases the schedules (count, duration,
\* enabled flag, trigger times) are left as they are.
C25_ShortPressDismisses ==
    [][MemoryFullIteration =>
         /\ brume' = brume /\ bulles' = bulles
         /\ IF press \in {p_bt1_s, p_bt2_s}
            THEN menu' = m_setup /\ subMenu' = 0 /\ press' = p_none
            ELSE menu' = menu /\ subMenu' = 6 /\ press' = press]_vars

\* The memory-full notice of the mist menu was dismissed with a short press
\* of button 2, and the full schedule is as the store gave it at boot.
C25_Witness ==
    /\ seen = [press |-> p_bt2_s, menu |-> m_brume, subMenu |-> 6, HorM |-> 0]
    /\ menu = m_setup /\ subMenu = 0 /\ press = p_none
    /\ brume = FullExtras /\ brume = RestoredBrume(EEPROM)

\* C26: the pump's run duration is at most 200 (seconds) and the mist and
\* bubbler run durations are at most 200 (minutes).
C26_Original ==
    /\ buse.tOn \in 0..200
    /\ brume.tOn \in 0..200
    /\ bulles.tOn \in 0..200

\* The seven entries of the setup list, in the order of menuName.
SetupEntries == <<m_lamp, m_buse, m_brume, m_bulle, m_time, m_save, m_exit>>

\* C27: in setup with the selection index within 0..6, a short press of
\* button 2 moves the index to the next entry and from 6 back to 0, the menu
\* staying in setup; a short press of button 1 enters the menu of the
\* selected entry (0..6: lamp, pump, mist, bubbler, clock, save, exit),
\* resets the index to 0 and empties the slot.
C27_SetupList ==
    [][(MenuIteration /\ menu = m_setup /\ setupVal \in 0..6) =>
         /\ press = p_bt2_s =>
              /\ setupVal' = (setupVal + 1) % 7
              /\ menu' = m_setup /\ press' = p_none
         /\ press = p_bt1_s =>
              /\ menu' = SetupEntries[setupVal + 1]
              /\ setupVal' = 0 /\ press' = p_none]_vars

\* Setup has been scrolled to its last entry and a short press of button 1
\* has entered the exit menu, the index back at 0.
C27_Witness ==
    /\ seen = [press |-> p_bt1_s, menu |-> m_setup, subMenu |-> 0, HorM |-> 0]
    /\ menu = m_exit /\ setupVal = 0 /\ press = p_none

\* Which task a step belongs to, told by the variables private to the task:
\* the input task moves the button records and the hold counters (or, seen
\* from the menu, the count of events written), the clock task the tick
\* count, the RTC its own time, the evaluators the outputs, their latches
\* and their evaluation times; a power cycle starts a new phase.  A step
\* that moves none of these is a step of the menu task.
InputStep ==
    \/ <<bt1, bt2, hold, emit>>' # <<bt1, bt2, hold, emit>>
    \/ presses' # presses

ClockStep == ktime' # ktime

RtcStep == rtc' # rtc /\ ktime' = ktime /\ skew' # skew

EvaluatorStep ==
    <<pinOut, lampNbr, buseFlag, busePc, buseWake, fires, lastEval>>' #
        <<pinOut, lampNbr, buseFlag, busePc, buseWake, fires, lastEval>>

BootStep == phase' # phase /\ phase' \in {"loaded", "reloaded"}

MenuTaskStep ==
    ~InputStep /\ ~ClockStep /\ ~RtcStep /\ ~EvaluatorStep /\ ~BootStep

\* C28 as stated: after boot the Configuration is written by the menu task
\* only, an event is put in the press slot by the input task only, the slot
\* is emptied by the menu task only, and the time of day is written by the
\* clock task only.
C28_Original ==
    [][~BootStep =>
         /\ Configuration' # Configuration => MenuTaskStep
         /\ (press' # press /\ press' # p_none) => InputStep
         /\ (press' # press /\ press' = p_none) => MenuTaskStep
         /\ globalTime' # globalTime => ClockStep]_vars

\* C28: after boot the Configuration is written by the menu task only, an
\* event is put in the press slot by the input task only, the slot is
\* emptied by the menu task only, and the time of day has two writers: the
\* clock task, and the menu task when a short press of button 1 validates
\* the time edited in the clock menu.  The evaluators, whose steps are none
\* of these, write neither the Configuration, nor the slot, nor the time.
C28_Writers ==
    [][~BootStep =>
         /\ Configuration' # Configuration => MenuTaskStep
         /\ (press' # press /\ press' # p_none) => InputStep
         /\ (press' # press /\ press' = p_none) => MenuTaskStep
         /\ globalTime' # globalTime =>
              \/ ClockStep
              \/ /\ MenuTaskStep
                 /\ menu = m_time /\ press = p_bt1_s /\ HorM # 0
                 /\ globalTime' = timeSelected]_vars

\* The menu task has written the time of day: the clock menu validated a
\* time other than the one the clock task was keeping.
C28_Witness ==
    /\ seen = [press |-> p_bt1_s, menu |-> m_time, subMenu |-> 0, HorM |-> 1]
    /\ menu = m_setup /\ press = p_none
    /\ globalTime = T(13, 0) /\ globalTime = timeSelected

\* C29 as stated: after every iteration of menu_task the press slot is
\* empty.
C29_Original == [][MenuIteration => press' = p_none]_vars

\* C29: an iteration of menu_task never puts an event in the slot: it
\* either empties the slot or leaves in it the event it found.  With the
\* menu off every event is cleared.  In setup the short presses of the two
\* buttons are cleared, and a long or repeat event is left in the slot, the
\* menu and the selection index staying as they are.
C29_SlotAfterIteration ==
    [][MenuIteration =>
         /\ press' \in {p_none, press}
         /\ menu = m_off => press' = p_none
         /\ (menu = m_setup /\ press \in {p_bt1_s, p_bt2_s}) => press' = p_none
         /\ (menu = m_setup /\ press \notin {p_none, p_bt1_s, p_bt2_s}) =>
              /\ press' = press
              /\ menu' = m_setup /\ setupVal' = setupVal]_vars

\* An iteration in setup has seen a long press of button 1 and the event is
\* still in the slot.
C29_Witness ==
    /\ seen = [press |-> p_bt1_l, menu |-> m_setup, subMenu |-> 0, HorM |-> 0]
    /\ menu = m_setup /\ press = p_bt1_l

\* C30: when buse_task activates the pump output it starts a sleep whose
\* length is the run duration read at that moment; from then on, whatever
\* the menu task writes to the pump schedule, the output stays active and
\* the wake-up time stays as set until the sleep returns, which it does not
\* before that time.  A step of the menu task moves neither the output nor
\* the pump task.
C30_PumpRunsToTheEnd ==
    [][/\ (busePc = "eval" /\ busePc' = "run") =>
            /\ pinOut'[busePin] = 0
            /\ \E w \in SleepTicks(buse.tOn) : buseWake' = ktime + w
       /\ busePc = "run" =>
            IF busePc' = "run"
            THEN pinOut'[busePin] = 0 /\ buseWake' = buseWake
            ELSE ktime >= buseWake
       /\ MenuTaskStep =>
            pinOut'[busePin] = pinOut[busePin] /\ busePc' = busePc]_vars

\* The pump was switched off in the menu while it was running: the schedule
\* is disabled, the sleep has not returned and the output is still active.
C30_Witness ==
    /\ busePc = "run" /\ ktime < buseWake
    /\ buse.active = 0 /\ seen.menu = m_buse /\ seen.press = p_bt2_s
    /\ pinOut[busePin] = 0

\* C31: an evaluation cycle of lamp_task leaves the output of every lamp
\* whose enabled flag is 0 inactive; an evaluation of buse_task that finds
\* the pump's flag 0 leaves the pump output inactive; an evaluation cycle of
\* brume_task or bulles_task that finds the flag 0 or the count 0 leaves the
\* mist or bubbler output inactive.
C31_DisabledDeviceOff ==
    [][/\ LampTask =>
            \A i \in 1..3 : lamps[i].active = 0 => ~Active(lampPin[i])'
       /\ (BuseEval /\ buse.active = 0) => ~Active(busePin)'
       /\ (BrumeTask /\ (brume.active = 0 \/ brume.nbr = 0)) =>
            ~Active(brumePin)'
       /\ (BullesTask /\ (bulles.active = 0 \/ bulles.nbr = 0)) =>
            ~Active(bullesPin)']_vars

\* At 08:30 every task has evaluated: the disabled lamps 1 and 3, the
\* disabled pump, the disabled mist and the bubbler with no trigger time
\* are off, all of them on schedules that are due, and the enabled lamp 2
\* is on.
C31_Witness ==
    /\ lastEval = [lamp |-> T(8, 30), buse |-> T(8, 30),
                   brume |-> T(8, 30), bulles |-> T(8, 30)]
    /\ buse.active = 0 /\ brume.active = 0 /\ bulles.nbr = 0
    /\ ~Active(lampPin[1]) /\ ~Active(lampPin[3]) /\ Active(lampPin[2])
    /\ ~Active(busePin) /\ ~Active(brumePin) /\ ~Active(bullesPin)

\* C32: once lamp_task has evaluated, the backlight output is at the level
\* that switches it on (1, the level written when lampNbr is not 0) exactly
\* when at least one of the three lamp outputs is active.
C32_Original ==
    lastEval.lamp # NoTime =>
        (pinOut[ledFond] = 1 <=> \E i \in 1..3 : Active(lampPin[i]))

\* C33: with the same schedule for the mist and the bubbler and their
\* outputs at the same level, an evaluation cycle of brume_task and one of
\* bulles_task at the current time leave the two outputs at the same level
\* (so that, by induction over the cycles, the outputs stay equal along any
\* common sequence of current times).
C33_Original ==
    (brume = bulles /\ pinOut[brumePin] = pinOut[bullesPin]) =>
        BrumeLevel(brume, globalTime, pinOut[brumePin])
            = BullesLevel(bulles, globalTime, pinOut[bullesPin])

\* The button records, and what a poll has done to a button: promoted it to
\* long, promoted it to repeating, or found it released.
Bt(b) == IF b = 1 THEN bt1 ELSE bt2
InLongMode(b) == Bt(b).val = 1 /\ Bt(b).mode = ModeLong
PastShort(b) == Bt(b).val = 1 /\ Bt(b).mode # ModeShort
LedWrite(b) ==
    IF Bt(b).mode = ModeShort /\ Bt(b)'.mode = ModeLong THEN 1
    ELSE IF Bt(b).mode = ModeLong /\ Bt(b)'.mode = ModeRepeat THEN 0
    ELSE IF Bt(b).val = 1 /\ Bt(b)'.val = 0 THEN 0
    ELSE NoWrite

\* C34 as stated: the indicator is on exactly in the states where at least
\* one button is held past the short threshold (promoted out of the short
\* mode and not yet released).
C34_Original ==
    pinOut[ledPin] = 1 <=> \E b \in Buttons : PastShort(b)

\* C34: a poll switches the indicator on when it promotes a button to long
\* and off when it promotes a button to repeating or finds a button
\* released, button 2's write coming last; a poll that does none of these
\* leaves the indicator as it is.  The indicator is therefore on only while
\* some button is in long mode, and it is off while a button repeats.
C34_Indicator ==
    [][/\ pinOut'[ledPin] =
            IF LedWrite(2) # NoWrite THEN LedWrite(2)
            ELSE IF LedWrite(1) # NoWrite THEN LedWrite(1)
            ELSE pinOut[ledPin]
       /\ pinOut'[ledPin] = 1 => \E b \in Buttons : InLongMode(b)'
       /\ (\A b \in Buttons : ~InLongMode(b)') => pinOut'[ledPin] = 0]_vars

\* Button 1 alone is held, has been promoted to long and is not yet
\* repeating: the indicator is on.
C34_Witness ==
    /\ hold = <<15, 0>> /\ InLongMode(1) /\ bt2 = ZeroButton
    /\ pinOut[ledPin] = 1

\* C35: an iteration of menu_task that consumes a long press of button 1
\* (finds it in the slot and empties the slot) leaves the three lamp
\* schedules, the pump schedule, the mist schedule and the bubbler schedule
\* as they were, in every menu state.
C35_LongPressKeepsConfiguration ==
    [][(MenuIteration /\ press = p_bt1_l /\ press' = p_none) =>
         Configuration' = Configuration]_vars

\* A long press of button 1 was consumed in the lamp menu's switch-on time
\* with the hour in focus, after the hour had been edited: the menu is back
\* on the lamp's enable question and the lamp's stored time is not the
\* edited one.
C35_Witness ==
    /\ seen = [press |-> p_bt1_l, menu |-> m_lamp, subMenu |-> 2, HorM |-> 0]
    /\ menu = m_lamp /\ subMenu = 1 /\ press = p_none
    /\ timeSelected # lamps[choosed + 1].onH
    /\ Configuration = [lamps |-> SeedLamps, buse |-> SeedBuse,
                        brume |-> ZeroExtras, bulles |-> ZeroExtras]

\* C36 as stated: the save action leaves the in-memory Configuration as it
\* was: the lamp, pump, mist and bubbler schedules have the same values
\* after saveToEEPROM as before it, whatever the store held.
C36_Original ==
    [][SaveAction => /\ lamps' = lamps /\ buse' = buse
                     /\ brume' = brume /\ bulles' = bulles]_vars

(***************************************************************************)
(* The lamp menu and the pump menu driven by button 1 alone: the input     *)
(* task writes only short and long presses of button 1, from the lamp      *)
(* menu's enable question or the pump menu's enable question onwards.      *)
(***************************************************************************)
MaxBackPresses == 12

Button1Written == SlotWritten(MaxBackPresses, {p_bt1_s, p_bt1_l})

InitBack == InitLampMenu \/ InitPumpMenu

SpecBack == InitBack /\ [][Button1Written \/ MenuTask]_vars

\* C37 as stated: with button 1 alone (short presses to commit, long presses
\* to go back, button 2 never pressed) the stored switch-on and switch-off
\* times of the lamps and the start and stop times of the pump stay what
\* they were, in particular after going back from the off-time edit to the
\* on-time edit and committing both times again.
C37_Original ==
    /\ \A i \in 1..3 : /\ lamps[i].onH = RestoredLamps(EEPROM)[i].onH
                       /\ lamps[i].offH = RestoredLamps(EEPROM)[i].offH
    /\ buse.startH = RestoredBuse(EEPROM).startH
    /\ buse.stopH = RestoredBuse(EEPROM).stopH

\* the iteration that commits the trigger time under edit in the mist or
\* bubbler menu
CommitsTrigger(k) ==
    /\ MenuIteration /\ menu = MenuOf(k) /\ subMenu = 5
    /\ press = p_bt1_s /\ HorM # 0

\* C38 as stated: an iteration of menu_task changes the count of the mist or
\* bubbler schedule only when it commits a new trigger time, so that an add
\* aborted with a long press of button 1 before the commit leaves the count
\* and the trigger times as they were.
C38_Original ==
    [][\A k \in Extras :
         (MenuIteration /\ Thing(k)'.nbr # Thing(k).nbr)
           => CommitsTrigger(k)]_vars

\* C39 as stated: with the local clock started on the RTC time and the two
\* never more than 59 seconds apart, the local hour equals the RTC hour in
\* every state where the local minute equals the RTC minute.
C39_Original ==
    globalTime.minutes = rtc.minutes => globalTime.hours = rtc.hours

\* C40: when a poll of input_task writes an event for button 1 and an event
\* for button 2, the press slot holds button 2's event after the poll and
\* button 1's event is not in the slot; after every poll the slot holds one
\* of the seven press values, and it holds the event of the single button
\* that wrote one, or what it held when neither wrote.
C40_Button2Wins ==
    [][/\ (emit'[1] # p_none /\ emit'[2] # p_none) =>
             /\ press' = emit'[2]
             /\ press' # emit'[1]
             /\ emit'[1] \in {p_bt1_s, p_bt1_l, p_bt1_r}
             /\ emit'[2] \in {p_bt2_s, p_bt2_l, p_bt2_r}
       /\ (emit'[1] # p_none /\ emit'[2] = p_none) => press' = emit'[1]
       /\ (emit'[1] = p_none /\ emit'[2] # p_none) => press' = emit'[2]
       /\ (emit'[1] = p_none /\ emit'[2] = p_none) => press' = press
       /\ press' \in {p_none, p_bt1_s, p_bt1_l, p_bt1_r,
                      p_bt2_s, p_bt2_l, p_bt2_r}]_vars

\* Both buttons were released in the same poll, button 1 after a long hold
\* and button 2 after a short one: the slot holds button 2's short press.
C40_Witness ==
    /\ emit = <<p_bt1_l, p_bt2_s>>
    /\ press = p_bt2_s
    /\ bt1 = ZeroButton /\ bt2 = ZeroButton /\ hold = <<0, 0>>

=============================================================================
